---- MODULE Spec2Model ----
(***************************************************************************)
(* A model of beeminder-scheduler: the goal store of BeeminderScheduler    *)
(* (src/src/scheduler.py), the goal-store commands of the CLI              *)
(* (src/src/cli.py) and the requirement calculation                        *)
(* BeeminderScheduler.calculate_requirements.                              *)
(*                                                                         *)
(* Numbers.  Python floats are modelled as exact rationals <<n, d>> in     *)
(* lowest terms with d > 0, so that 40 * 0.05 = 2 and 365 / 365 = 1 are    *)
(* equalities of values and not of decimal renderings.                     *)
(* Strings that the code parses are sequences of one-character strings.    *)
(* An optional value (None, or a key that is absent) is the empty          *)
(* sequence <<>>; a present value x is <<x>>.                              *)
(***************************************************************************)
EXTENDS Integers, Sequences, FiniteSets, TLC

\* ------------------------------------------------------------------------
\* Bounds of the model
\* ------------------------------------------------------------------------

\* the hour figures H of the generated "H:MM" minimum-due strings are 0..MaxHours
MaxHours == 1

\* ------------------------------------------------------------------------
\* Exact rational arithmetic (the values of Python's float expressions)
\* ------------------------------------------------------------------------

Abs(x) == IF x < 0 THEN -x ELSE x

RECURSIVE GCD(_, _)
GCD(a, b) == IF b = 0 THEN a ELSE GCD(b, a % b)

\* n / d in lowest terms, d # 0
Rat(n, d) ==
    LET g == GCD(Abs(n), Abs(d))
        s == IF d < 0 THEN -1 ELSE 1
    IN  << (s * n) \div g, (s * d) \div g >>

RInt(n) == << n, 1 >>
RZero == RInt(0)
RAdd(a, b) == Rat(a[1] * b[2] + b[1] * a[2], a[2] * b[2])
RMul(a, b) == Rat(a[1] * b[1], a[2] * b[2])
RNeg(a) == << -a[1], a[2] >>
RAbs(a) == << Abs(a[1]), a[2] >>
RLess(a, b) == a[1] * b[2] < b[1] * a[2]
RGeq(a, b) == ~RLess(a, b)

\* ------------------------------------------------------------------------
\* String primitives of Python used by the baremin parser
\* ------------------------------------------------------------------------

Digits == {"0", "1", "2", "3", "4", "5", "6", "7", "8", "9"}

DigitVal(c) ==
    CASE c = "0" -> 0 [] c = "1" -> 1 [] c = "2" -> 2 [] c = "3" -> 3
      [] c = "4" -> 4 [] c = "5" -> 5 [] c = "6" -> 6 [] c = "7" -> 7
      [] c = "8" -> 8 [] c = "9" -> 9

\* c in s
Contains(s, c) == \E i \in DOMAIN s : s[i] = c

\* s.startswith(c)
StartsWith(s, c) == Len(s) > 0 /\ s[1] = c

\* s.lstrip(chars): every leading character of chars is removed
RECURSIVE LStrip(_, _)
LStrip(s, chars) ==
    IF s # <<>> /\ s[1] \in chars THEN LStrip(Tail(s), chars) ELSE s

RECURSIVE RStrip(_, _)
RStrip(s, chars) ==
    IF s # <<>> /\ s[Len(s)] \in chars
    THEN RStrip(SubSeq(s, 1, Len(s) - 1), chars)
    ELSE s

\* s.strip() of the whitespace that int() and float() ignore
Strip(s) == RStrip(LStrip(s, {" "}), {" "})

\* s.split(sep): the pieces between the separators, empty pieces included
RECURSIVE SplitFrom(_, _, _)
SplitFrom(s, sep, cur) ==
    IF s = <<>> THEN << cur >>
    ELSE IF s[1] = sep THEN << cur >> \o SplitFrom(Tail(s), sep, <<>>)
    ELSE SplitFrom(Tail(s), sep, Append(cur, s[1]))

Split(s, sep) == SplitFrom(s, sep, <<>>)

AllDigits(s) == \A i \in DOMAIN s : s[i] \in Digits

RECURSIVE DigitsVal(_, _)
DigitsVal(s, acc) ==
    IF s = <<>> THEN acc ELSE DigitsVal(Tail(s), 10 * acc + DigitVal(s[1]))

RECURSIVE Pow10(_)
Pow10(k) == IF k = 0 THEN 1 ELSE 10 * Pow10(k - 1)

\* int(s): surrounding blanks ignored, one optional sign, then one or more
\* digits.  <<>> stands for ValueError, <<n>> for the value n.
IntParse(s) ==
    LET t == Strip(s)
        signed == t # <<>> /\ t[1] \in {"+", "-"}
        body == IF signed THEN Tail(t) ELSE t
    IN  IF body = <<>> \/ ~AllDigits(body) THEN <<>>
        ELSE IF signed /\ t[1] = "-" THEN << -DigitsVal(body, 0) >>
        ELSE << DigitsVal(body, 0) >>

\* float(s) on decimal notation: surrounding blanks ignored, one optional
\* sign, digits with at most one point and at least one digit.
\* <<>> stands for ValueError, <<r>> for the value r.
FloatParse(s) ==
    LET t == Strip(s)
        signed == t # <<>> /\ t[1] \in {"+", "-"}
        body == IF signed THEN Tail(t) ELSE t
        parts == Split(body, ".")
        whole == parts[1]
        frac == IF Len(parts) = 2 THEN parts[2] ELSE <<>>
        ok == /\ Len(parts) \in {1, 2}
              /\ AllDigits(whole) /\ AllDigits(frac)
              /\ Len(whole) + Len(frac) > 0
        mag == Rat(DigitsVal(whole \o frac, 0), Pow10(Len(frac)))
    IN  IF ~ok THEN <<>>
        ELSE IF signed /\ t[1] = "-" THEN << RNeg(mag) >>
        ELSE << mag >>

\* ------------------------------------------------------------------------
\* The minimum-due figure (baremin) of the telemetry
\* ------------------------------------------------------------------------

\* The encodings a goal's JSON can carry: the key absent, a JSON null, a JSON
\* number, a JSON string.
BareminAbsent == [kind |-> "absent", s |-> <<>>, v |-> RZero]
BareminNull == [kind |-> "null", s |-> <<>>, v |-> RZero]
BareminNum(r) == [kind |-> "num", s |-> <<>>, v |-> r]
BareminStr(s) == [kind |-> "str", s |-> s, v |-> RZero]

\* goal_data.get('baremin', '0'): the default applies to an absent key only
GetBaremin(b) == IF b.kind = "absent" THEN BareminStr(<< "0" >>) ELSE b

\* line 139, with the sign on hours alone: sign * hours + minutes / 60.0
TimeDeltaSignOnHours(sign, hours, minutes) ==
    RAdd(RInt(sign * hours), Rat(minutes, 60))

\* line 139: delta = sign * (hours + minutes / 60.0)
TimeDelta(sign, hours, minutes) ==
    RMul(RInt(sign), RAdd(RInt(hours), Rat(minutes, 60)))

\* The parse of lines 134-144.  outcome "ok": delta is the parsed value;
\* "ValueError": caught at line 142, delta = 0; "TypeError": `':' in baremin`
\* on a value that is no string raises TypeError, which line 142 does not catch.
ParseBaremin(b) ==
    LET baremin == GetBaremin(b) IN
    IF baremin.kind # "str" THEN [outcome |-> "TypeError", delta |-> RZero]
    ELSE IF Contains(baremin.s, ":") THEN
        LET sign == IF StartsWith(baremin.s, "-") THEN -1 ELSE 1
            time_str == LStrip(baremin.s, {"+", "-"})
            pieces == Split(time_str, ":")
            hours == IntParse(pieces[1])
            minutes == IntParse(pieces[2])
        IN  IF Len(pieces) # 2 \/ hours = <<>> \/ minutes = <<>>
            THEN [outcome |-> "ValueError", delta |-> RZero]
            ELSE [outcome |-> "ok", delta |-> TimeDelta(sign, hours[1], minutes[1])]
    ELSE
        LET f == FloatParse(baremin.s)
        IN  IF f = <<>> THEN [outcome |-> "ValueError", delta |-> RZero]
            ELSE [outcome |-> "ok", delta |-> f[1]]

\* ------------------------------------------------------------------------
\* The goal store and the remote telemetry
\* ------------------------------------------------------------------------

Slugs == {"reading", "coding"}

None == <<>>
Some(x) == << x >>

\* hours_per_unit values a caller passes to add_goal / update_goal
HoursInputs == {Rat(1, 20), RInt(1), RInt(-2)}

\* --hours of the CLI add command: not given, or a float
CliHoursInputs == {None} \cup {Some(h) : h \in HoursInputs \cup {RZero}}

\* --name / calendar_name arguments: not given, or a label
NameInputs == {None, Some("Study")}

\* The decimal digits of n >= 0, as Python's str(n)
RECURSIVE IntStr(_)
IntStr(n) ==
    LET d == n % 10
        c == CHOOSE ch \in Digits : DigitVal(ch) = d
    IN  IF n < 10 THEN << c >> ELSE Append(IntStr(n \div 10), c)

\* the minimum-due string sign H ":" MM of h hours and m < 60 minutes
HMString(sign, h, m) ==
    sign \o IntStr(h) \o << ":" >> \o IntStr(m \div 10) \o IntStr(m % 10)

Signs == {<< "-" >>, << "+" >>, <<>>}
MinuteValues == {0, 30}

HMStrings ==
    {HMString(sign, h, m) : sign \in Signs, h \in 0..MaxHours, m \in MinuteValues}

NumericStrings == {<< "+", "1", ".", "5" >>, << "-", "2" >>}

MalformedStrings == {<< "a", "b", "c" >>, << "1", ":", "2", ":", "3" >>}

Baremins ==
    {BareminStr(s) : s \in HMStrings \cup NumericStrings \cup MalformedStrings}
        \cup {BareminAbsent, BareminNull, BareminNum(RInt(2))}

\* The goal JSON of the remote service, the fields calculate_requirements reads
Tel(curval, goalval, yaw, safebuf, rate, runits, baremin) ==
    [curval |-> curval, goalval |-> goalval, yaw |-> yaw, safebuf |-> safebuf,
     rate |-> rate, runits |-> runits, baremin |-> baremin,
     limsum |-> None, losedate |-> None]

DefaultTel == Tel(Some(10), None, 1, 7, RInt(1), "d", BareminAbsent)

SafebufValues == {-5, 0, 1, 2, 3, 6, 7}

RateCases ==
    {<< RInt(365), "y" >>, << RInt(1), "d" >>, << RInt(2), "w" >>,
     << RInt(30), "m" >>, << RInt(1), "h" >>, << RInt(3), "x" >>,
     << RInt(-7), "w" >>}

TargetCases == {<< 50, 1 >>, << 5, 1 >>, << 50, -1 >>}

\* limsum and losedate as the service may send them: an empty summary with a
\* zero epoch, a summary with an epoch
SummaryAndDeadlineCases ==
    {<< Some(""), Some(0) >>, << Some("+1 due in 2 days"), Some(2000000) >>}

\* The telemetry the remote service may answer with: every minimum-due
\* encoding, target-based telemetry, every rate unit, every urgency band,
\* each also for a goal without datapoints (curval null) .
Telemetry ==
    {[DefaultTel EXCEPT !.baremin = b] : b \in Baremins}
  \cup {[DefaultTel EXCEPT !.curval = c, !.baremin = b] :
            c \in {None, Some(0)},
            b \in {BareminStr(<< "-", "0", ":", "3", "0" >>), BareminNum(RInt(2))}}
  \cup {[DefaultTel EXCEPT !.goalval = Some(t[1]), !.yaw = t[2]] : t \in TargetCases}
  \cup {[DefaultTel EXCEPT !.rate = r[1], !.runits = r[2]] : r \in RateCases}
  \cup {[DefaultTel EXCEPT !.curval = None, !.rate = RInt(2), !.runits = "w"]}
  \cup {[DefaultTel EXCEPT !.curval = c, !.safebuf = s] :
            c \in {None, Some(10)}, s \in SafebufValues}
  \cup {[DefaultTel EXCEPT !.curval = c, !.limsum = x[1], !.losedate = x[2]] :
            c \in {None, Some(10)}, x \in SummaryAndDeadlineCases}

\* ------------------------------------------------------------------------
\* Program constants
\* ------------------------------------------------------------------------

\* timedelta(days=365) of line 103
NoDeadlineDays == 365

\* the seconds of one day of a timedelta
SecondsPerDay == 86400

\* calculate_requirements(self, days_ahead: int = 7)
DaysAhead == 7

\* the divisors and the factor of the rate normalisation
DaysPerYear == 365
DaysPerMonth == 30
DaysPerWeek == 7
HoursPerDay == 24

\* ------------------------------------------------------------------------
\* State
\* ------------------------------------------------------------------------

VARIABLES
    config,     \* scheduler.config['goals']: the goals in dict order, each
                \* [slug, calendar_name, hours_per_unit]
    calendar_id,      \* scheduler.config.get('google_calendar_id'), None if absent
    disk,       \* the goals of the config file as last written; None: no file
    disk_calendar_id, \* the google_calendar_id of the config file, None if absent
    error,      \* what the operation under way or last ended raised or reported,
                \* as the pieces of its message; NoError if nothing
    pc,         \* "idle", "calc" (inside calculate_requirements), "done" (returned)
    todo,       \* the ScheduledGoal objects the loop of line 96 has yet to visit
    fetched,    \* this pass's get_goal calls in order: [slug, goal, ok, tel]
    result,     \* the dict calculate_requirements builds: slug -> requirement
    raw_schedule,     \* the text the collaborator answered with, as characters
    final_schedule,   \* what _parse_schedule returned for it; None: not yet called
    schedule_lines,   \* what refine_schedule's stripping step collected from
                      \* final_schedule; None: not yet run
    last_schedule,    \* the text of the last-schedule file; None: no file
    op,               \* the schedule-generation handler under way and its
                      \* position: "none", "schedule", "today" (the CLI commands
                      \* inside their calculate_requirements), "generate",
                      \* "generate_and_push" (the menu entries, likewise),
                      \* "refine" (the loop of generate_daily_schedule),
                      \* "calendar" (generate_and_push_to_calendar past its
                      \* save), "push" (inside its push_schedule_to_calendar)
    llm_api_key,      \* LLMScheduler.config['api_key'], which _save_config
                      \* writes as soon as it is set; "" if absent
    chat_calls,       \* the chat.completions.create requests of the handler
                      \* under way or last ended, in order: "test", "generate",
                      \* "refine"
    generated,        \* the schedule the most recent generate_schedule or
                      \* refine_schedule call returned; None: none was made
    message,          \* what the handler last ended told the user
    service,          \* GoogleCalendarAPI.service; None until authenticate succeeds
    push_pc,          \* "idle", "push" (inside the loop of
                      \* push_schedule_to_calendar), "returned"
    schedule_text,    \* the schedule_text push_schedule_to_calendar was given
    push_lines,       \* the lines its loop has yet to visit
    attempts,         \* its create_event calls in order: [summary, start_time,
                      \* end_time, color_id, outcome], each with the activity
                      \* and goal_name the loop had matched and the start and
                      \* end create_event gave the event
    events_created,
    errors,
    clock,            \* the datetime.now() the most recent default start time
                      \* was computed from, as [hour, minute]; None: none yet
    default_start_time \* what that computation gave; None: none yet

\* the variables of schedule generation, formatting and calendar pushes
textVars == << raw_schedule, final_schedule, schedule_lines >>
genVars == << last_schedule, op, llm_api_key, chat_calls, generated, message >>
pushVars == << service, push_pc, schedule_text, push_lines, attempts,
               events_created, errors >>
clockVars == << clock, default_start_time >>
llmVars == << textVars, genVars, pushVars, clockVars >>

\* the goal store and the pass over it
storeVars == << config, calendar_id, disk, disk_calendar_id, error >>
calcVars == << pc, todo, fetched, result >>

vars == << storeVars, calcVars, llmVars >>

NoError == <<>>

\* ValueError(f"Goal '{slug}' is not scheduled")
NotScheduledError(slug) == << "ValueError", "Goal '", slug, "' is not scheduled" >>

EmptyMap == [s \in {} |-> None]

\* ------------------------------------------------------------------------
\* The goal store: add_goal, remove_goal, update_goal, get_scheduled_goals
\* ------------------------------------------------------------------------

HasGoal(goals, slug) == \E i \in DOMAIN goals : goals[i].slug = slug

IndexOf(goals, slug) == CHOOSE i \in DOMAIN goals : goals[i].slug = slug

\* goals[slug] = entry: an existing key keeps its place, a new key goes last
PutGoal(goals, entry) ==
    IF HasGoal(goals, entry.slug)
    THEN [goals EXCEPT ![IndexOf(goals, entry.slug)] = entry]
    ELSE Append(goals, entry)

\* del goals[slug]
DelGoal(goals, slug) ==
    LET i == IndexOf(goals, slug)
    IN  SubSeq(goals, 1, i - 1) \o SubSeq(goals, i + 1, Len(goals))

\* _load_config: the goals of the file, none if there is no file
LoadConfig(file) == IF file = None THEN <<>> ELSE file[1]

\* the google_calendar_id _load_config finds in the file
LoadCalendarId(file, file_calendar_id) ==
    IF file = None THEN None ELSE file_calendar_id

\* the entry add_goal stores: calendar_name or slug, hours_per_unit as given
NewEntry(slug, calendar_name, hours_per_unit) ==
    [slug |-> slug,
     calendar_name |-> IF calendar_name = None THEN slug ELSE calendar_name[1],
     hours_per_unit |-> hours_per_unit]

\* add_goal: get_goal verifies the goal (fetch_ok = FALSE: it raises and nothing
\* is stored), then the entry is put and the config saved
AddGoal(slug, calendar_name, hours_per_unit, fetch_ok) ==
    /\ pc = "idle"
    /\ IF fetch_ok
       THEN /\ config' = PutGoal(config, NewEntry(slug, calendar_name, hours_per_unit))
            /\ disk' = Some(config')
            /\ disk_calendar_id' = calendar_id
            /\ error' = NoError
       ELSE /\ error' = << "HTTPError" >>
            /\ UNCHANGED << config, disk, disk_calendar_id >>
    /\ UNCHANGED << calendar_id, calcVars, llmVars >>

\* `hours or 1.0` of the CLI add command: no option and 0.0 both give 1.0
CliHoursOrDefault(hours) ==
    IF hours = None \/ hours[1] = RZero THEN RInt(1) ELSE hours[1]

\* cli add: a scheduler constructed from the file, the command's own get_goal
\* check (check_ok), then scheduler.add_goal, whose exception the command reports
CliAdd(slug, name, hours, check_ok, fetch_ok) ==
    /\ pc = "idle"
    /\ calendar_id' = LoadCalendarId(disk, disk_calendar_id)
    /\ IF ~check_ok
       THEN /\ error' = << "not found" >>
            /\ config' = LoadConfig(disk)
            /\ UNCHANGED << disk, disk_calendar_id >>
       ELSE IF fetch_ok
       THEN /\ config' = PutGoal(LoadConfig(disk),
                            NewEntry(slug, Some(IF name = None THEN slug ELSE name[1]),
                                     CliHoursOrDefault(hours)))
            /\ disk' = Some(config')
            /\ disk_calendar_id' = calendar_id'
            /\ error' = NoError
       ELSE /\ error' = << "HTTPError" >>
            /\ config' = LoadConfig(disk)
            /\ UNCHANGED << disk, disk_calendar_id >>
    /\ UNCHANGED << calcVars, llmVars >>

\* remove_goal without the save of line 63
RemoveGoalUnsaved(slug) ==
    /\ pc = "idle"
    /\ config' = IF HasGoal(config, slug) THEN DelGoal(config, slug) ELSE config
    /\ error' = NoError
    /\ UNCHANGED << disk, disk_calendar_id, calendar_id, calcVars, llmVars >>

\* remove_goal: a goal that is not scheduled is left alone, nothing is saved
RemoveGoal(slug) ==
    /\ pc = "idle"
    /\ IF HasGoal(config, slug)
       THEN /\ config' = DelGoal(config, slug)
            /\ disk' = Some(config')
            /\ disk_calendar_id' = calendar_id
       ELSE UNCHANGED << config, disk, disk_calendar_id >>
    /\ error' = NoError
    /\ UNCHANGED << calendar_id, calcVars, llmVars >>

\* update_goal without the check of lines 67-68: a goal that is not scheduled
\* is stored as add_goal would store it
UpdateGoalUpsert(slug, calendar_name, hours_per_unit) ==
    /\ pc = "idle"
    /\ config' = PutGoal(config,
                    IF HasGoal(config, slug)
                    THEN LET old == config[IndexOf(config, slug)]
                         IN  [slug |-> slug,
                              calendar_name |->
                                  IF calendar_name = None THEN old.calendar_name
                                  ELSE calendar_name[1],
                              hours_per_unit |->
                                  IF hours_per_unit = None THEN old.hours_per_unit
                                  ELSE hours_per_unit[1]]
                    ELSE NewEntry(slug, calendar_name,
                                  IF hours_per_unit = None THEN RInt(1)
                                  ELSE hours_per_unit[1]))
    /\ disk' = Some(config')
    /\ disk_calendar_id' = calendar_id
    /\ error' = NoError
    /\ UNCHANGED << calendar_id, calcVars, llmVars >>

\* update_goal: ValueError for a goal that is not scheduled; otherwise the
\* fields that are given replace the stored ones and the config is saved
UpdateGoal(slug, calendar_name, hours_per_unit) ==
    /\ pc = "idle"
    /\ IF ~HasGoal(config, slug)
       THEN /\ error' = NotScheduledError(slug)
            /\ UNCHANGED << config, disk, disk_calendar_id >>
       ELSE LET old == config[IndexOf(config, slug)]
                new == [slug |-> slug,
                        calendar_name |->
                            IF calendar_name = None THEN old.calendar_name
                            ELSE calendar_name[1],
                        hours_per_unit |->
                            IF hours_per_unit = None THEN old.hours_per_unit
                            ELSE hours_per_unit[1]]
            IN  /\ config' = PutGoal(config, new)
                /\ disk' = Some(config')
                /\ disk_calendar_id' = calendar_id
                /\ error' = NoError
    /\ UNCHANGED << calendar_id, calcVars, llmVars >>

\* get_scheduled_goals: one ScheduledGoal per stored goal, in dict order
GetScheduledGoals(goals) == goals

\* BeeminderScheduler.__init__ of a new process: the config is read from the
\* file once, here and nowhere else
Construct ==
    /\ pc = "idle"
    /\ config' = LoadConfig(disk)
    /\ calendar_id' = LoadCalendarId(disk, disk_calendar_id)
    /\ error' = NoError
    /\ UNCHANGED << disk, disk_calendar_id, calcVars, llmVars >>

\* cli remove: a scheduler constructed from the file, then remove_goal
CliRemove(slug) ==
    /\ pc = "idle"
    /\ calendar_id' = LoadCalendarId(disk, disk_calendar_id)
    /\ IF HasGoal(LoadConfig(disk), slug)
       THEN /\ config' = DelGoal(LoadConfig(disk), slug)
            /\ disk' = Some(config')
            /\ disk_calendar_id' = calendar_id'
       ELSE /\ config' = LoadConfig(disk)
            /\ UNCHANGED << disk, disk_calendar_id >>
    /\ error' = NoError
    /\ UNCHANGED << calcVars, llmVars >>

\* the title the remote service lists for a goal
TitleOf(slug) == IF slug = "reading" THEN "Read books" ELSE "Write code"

\* add_goal_to_scheduling of the interactive menu: a goal not yet scheduled is
\* picked from get_goals (goals_ok = FALSE: it raises), an empty name gives the
\* title, empty hours give 1.0, hours <= 0 are asked again, then add_goal
AddGoalToScheduling(slug, name, hours, goals_ok, fetch_ok) ==
    /\ pc = "idle"
    /\ IF ~goals_ok
       THEN /\ error' = << "HTTPError" >>
            /\ UNCHANGED << config, calendar_id, disk, disk_calendar_id,
                            calcVars, llmVars >>
       ELSE /\ ~HasGoal(config, slug)
            /\ hours # None => RLess(RZero, hours[1])
            /\ AddGoal(slug,
                       Some(IF name = None THEN TitleOf(slug) ELSE name[1]),
                       IF hours = None THEN RInt(1) ELSE hours[1],
                       fetch_ok)

\* remove_goal_from_scheduling of the interactive menu: a scheduled goal is
\* picked and removed once the user has typed yes
RemoveGoalFromScheduling(slug, confirm) ==
    /\ pc = "idle"
    /\ HasGoal(config, slug)
    /\ IF confirm
       THEN RemoveGoal(slug)
       ELSE /\ error' = NoError
            /\ UNCHANGED << config, calendar_id, disk, disk_calendar_id,
                            calcVars, llmVars >>

\* edit_goal_settings of the interactive menu: a scheduled goal is picked,
\* hours <= 0 are ignored, and update_goal is called if anything is left
EditGoalSettings(slug, name, hours) ==
    /\ pc = "idle"
    /\ HasGoal(config, slug)
    /\ LET hours_per_unit ==
               IF hours # None /\ ~RLess(RZero, hours[1]) THEN None ELSE hours
       IN  IF name # None \/ hours_per_unit # None
           THEN UpdateGoal(slug, name, hours_per_unit)
           ELSE /\ error' = NoError
                /\ UNCHANGED << config, calendar_id, disk, disk_calendar_id,
                                calcVars, llmVars >>

\* the calendars the user's account may list
CalendarIds == {"primary", "work"}

\* list_google_calendars of the interactive menu: the file is read afresh, the
\* picked calendar becomes its google_calendar_id and the file is written; the
\* scheduler's config in memory is not touched
ListGoogleCalendars(selected_id) ==
    /\ pc = "idle"
    /\ disk' = Some(LoadConfig(disk))
    /\ disk_calendar_id' = Some(selected_id)
    /\ error' = NoError
    /\ UNCHANGED << config, calendar_id, calcVars, llmVars >>

\* gcal calendars of the CLI: the primary calendar becomes the file's
\* google_calendar_id if the file has none
GcalCalendars(has_primary) ==
    /\ pc = "idle"
    /\ IF has_primary /\ LoadCalendarId(disk, disk_calendar_id) = None
       THEN /\ disk' = Some(LoadConfig(disk))
            /\ disk_calendar_id' = Some("primary")
       ELSE UNCHANGED << disk, disk_calendar_id >>
    /\ error' = NoError
    /\ UNCHANGED << config, calendar_id, calcVars, llmVars >>

\* ------------------------------------------------------------------------
\* calculate_requirements
\* ------------------------------------------------------------------------

\* _get_urgency_level with <= for < at every threshold
GetUrgencyLevelInclusive(safebuf) ==
    IF safebuf <= 1 THEN "red"
    ELSE IF safebuf <= 2 THEN "yellow"
    ELSE IF safebuf <= 3 THEN "blue"
    ELSE IF safebuf <= 7 THEN "green"
    ELSE "gray"

\* _get_urgency_level with the band below 7 answering like the band below 3
GetUrgencyLevelNoGreen(safebuf) ==
    IF safebuf < 1 THEN "red"
    ELSE IF safebuf < 2 THEN "yellow"
    ELSE IF safebuf < 7 THEN "blue"
    ELSE "gray"

\* _get_urgency_level
GetUrgencyLevel(safebuf) ==
    IF safebuf < 1 THEN "red"
    ELSE IF safebuf < 2 THEN "yellow"
    ELSE IF safebuf < 3 THEN "blue"
    ELSE IF safebuf < 7 THEN "green"
    ELSE "gray"

\* lines 151-159: the rate as a daily figure
RatePerDay(rate, runits) ==
    IF runits = "y" THEN RMul(rate, Rat(1, DaysPerYear))
    ELSE IF runits = "m" THEN RMul(rate, Rat(1, DaysPerMonth))
    ELSE IF runits = "w" THEN RMul(rate, Rat(1, DaysPerWeek))
    ELSE IF runits = "h" THEN RMul(rate, RInt(HoursPerDay))
    ELSE rate

\* line 147 without abs(): delta * goal.hours_per_unit
HoursNeededSigned(delta, hours_per_unit) == RMul(delta, hours_per_unit)

\* line 147: hours_needed = abs(delta) * goal.hours_per_unit
HoursNeeded(delta, hours_per_unit) == RMul(RAbs(delta), hours_per_unit)

\* line 162: hours_per_day = abs(rate_per_day * goal.hours_per_unit)
HoursPerDayOf(rate_per_day, hours_per_unit) == RAbs(RMul(rate_per_day, hours_per_unit))

\* line 108 as a truth test: if not current_value
IsMissingFalsy(current_value) == current_value = None \/ current_value = Some(0)

\* line 108: if current_value is None
IsMissing(current_value) == current_value = None

\* the instant datetime.now() of line 103 gives, in seconds; no time passes
\* within one pass
Now == 1000000

\* line 102: goal_data.get('losedate', 0)
GetLosedate(tel) == IF tel.losedate = None THEN 0 ELSE tel.losedate[1]

\* line 103 with the epoch used whatever it is
DeadlineAlwaysEpoch(losedate) == losedate

\* line 103: the instant of the deadline, in seconds
Deadline(losedate) ==
    IF losedate # 0 THEN losedate ELSE Now + NoDeadlineDays * SecondsPerDay

\* goal_data.get('limsum', default) of lines 120 and 130
GetLimsum(tel, default) == IF tel.limsum = None THEN default ELSE tel.limsum[1]

\* lines 109-122: the requirement of a goal without datapoints
MissingRequirement(goal, tel) ==
    [calendar_name |-> goal.calendar_name,
     current_value |-> None,
     deadline |-> Deadline(GetLosedate(tel)),
     limsum |-> GetLimsum(tel, "Missing datapoints"),
     delta |-> RZero,
     safebuf |-> tel.safebuf,
     is_urgent |-> tel.safebuf < DaysAhead,
     urgency |-> GetUrgencyLevel(tel.safebuf),
     hours_needed |-> RZero,
     hours_per_day |-> RZero,
     rate |-> None,
     rate_per_day |-> None,
     missing_data |-> TRUE]

\* lines 170-186: the requirement of a goal with datapoints, delta parsed
DataRequirement(goal, tel, delta) ==
    LET rate_per_day == RatePerDay(tel.rate, tel.runits)
    IN  [calendar_name |-> goal.calendar_name,
         current_value |-> tel.curval,
         deadline |-> Deadline(GetLosedate(tel)),
         limsum |-> GetLimsum(tel, ""),
         delta |-> delta,
         safebuf |-> tel.safebuf,
         is_urgent |-> tel.safebuf < DaysAhead,
         urgency |-> GetUrgencyLevel(tel.safebuf),
         hours_needed |-> HoursNeeded(delta, goal.hours_per_unit),
         hours_per_day |-> HoursPerDayOf(rate_per_day, goal.hours_per_unit),
         rate |-> Some(tel.rate),
         rate_per_day |-> Some(rate_per_day),
         missing_data |-> FALSE]

\* The body of the try of lines 97-186 for one goal whose get_goal returned
\* tel: Some(requirement), or None when an exception reached line 187 and the
\* goal was skipped.
ProcessGoal(goal, tel) ==
    IF IsMissing(tel.curval) THEN Some(MissingRequirement(goal, tel))
    ELSE LET parsed == ParseBaremin(tel.baremin)
         IN  IF parsed.outcome = "TypeError" THEN None
             ELSE Some(DataRequirement(goal, tel, parsed.delta))

\* lines 92-94: the goals are read, the result starts empty
StartCalc ==
    /\ pc = "idle"
    /\ pc' = "calc"
    /\ todo' = GetScheduledGoals(config)
    /\ fetched' = <<>>
    /\ result' = EmptyMap
    /\ error' = NoError
    /\ UNCHANGED << config, calendar_id, disk, disk_calendar_id, llmVars >>

\* one iteration of the loop whose get_goal returns tel
FetchOk(tel) ==
    /\ pc = "calc"
    /\ todo # <<>>
    /\ LET goal == Head(todo)
           req == ProcessGoal(goal, tel)
       IN  /\ fetched' = Append(fetched,
                              [slug |-> goal.slug, goal |-> goal, ok |-> TRUE, tel |-> tel])
           /\ result' = IF req = None THEN result
                        ELSE (goal.slug :> req[1]) @@ result
    /\ todo' = Tail(todo)
    /\ UNCHANGED << storeVars, pc, llmVars >>

\* one iteration of the loop whose get_goal raises, with the exception ending
\* the pass and its result
FetchFailEndsPass ==
    /\ pc = "calc"
    /\ todo # <<>>
    /\ fetched' = Append(fetched,
                         [slug |-> Head(todo).slug, goal |-> Head(todo),
                          ok |-> FALSE, tel |-> DefaultTel])
    /\ todo' = <<>>
    /\ result' = EmptyMap
    /\ UNCHANGED << storeVars, pc, llmVars >>

\* one iteration of the loop whose get_goal raises: line 187 reports it and
\* the loop goes on
FetchFail ==
    /\ pc = "calc"
    /\ todo # <<>>
    /\ fetched' = Append(fetched,
                         [slug |-> Head(todo).slug, goal |-> Head(todo),
                          ok |-> FALSE, tel |-> DefaultTel])
    /\ todo' = Tail(todo)
    /\ UNCHANGED << storeVars, pc, result, llmVars >>

\* line 191: return result
ReturnCalc ==
    /\ pc = "calc"
    /\ todo = <<>>
    /\ pc' = "done"
    /\ UNCHANGED << storeVars, todo, fetched, result, llmVars >>

\* the caller is through with the returned requirements
Finish ==
    /\ pc = "done"
    /\ pc' = "idle"
    /\ fetched' = <<>>
    /\ result' = EmptyMap
    /\ UNCHANGED << storeVars, todo, llmVars >>

\* ------------------------------------------------------------------------
\* Schedule texts.  A text is a sequence of characters; a clock time and a
\* word stand for one character each, since no pattern of the code looks inside
\* them, and the fence of three backquotes is one character too.
\* ------------------------------------------------------------------------

\* what \d{1,2}:\d{2} [AP]M matches
Times ==
    {"9:00 AM", "10:00 AM", "10:15 AM", "11:00 PM", "12:00 AM", "13:00 PM"}

\* the three backquotes that open and close a block
Fence == "<fence>"

\* the whitespace str.strip() removes
Whitespace == {" ", "\n"}

\* s.strip()
StripWs(s) == RStrip(LStrip(s, Whitespace), Whitespace)

\* the pattern pat lies in s at position i
MatchAt(s, i, pat) ==
    /\ i >= 1
    /\ i + Len(pat) - 1 <= Len(s)
    /\ \A k \in 1..Len(pat) : s[i + k - 1] = pat[k]

\* s.startswith(prefix)
StartsWithSeq(s, prefix) == MatchAt(s, 1, prefix)

Min(S) == CHOOSE x \in S : \A y \in S : x <= y

\* sep.join(lines)
RECURSIVE Join(_, _)
Join(lines, sep) ==
    IF lines = <<>> THEN <<>>
    ELSE IF Len(lines) = 1 THEN lines[1]
    ELSE lines[1] \o sep \o Join(Tail(lines), sep)

\* re.search of <fence>schedule\n(.*?)\n<fence> with re.DOTALL: the leftmost opening
\* fence that some closing fence follows, and the text up to the first such
\* closing fence; None if there is no match, else group(1)
ScheduleMatch(raw) ==
    LET open == << Fence, "schedule", "\n" >>
        close == << "\n", Fence >>
        Closes(i) == {j \in (i + 3)..Len(raw) : MatchAt(raw, j, close)}
        starts == {i \in 1..Len(raw) : MatchAt(raw, i, open) /\ Closes(i) # {}}
    IN  IF starts = {} THEN None
        ELSE LET i == Min(starts)
             IN  Some(SubSeq(raw, i + 3, Min(Closes(i)) - 1))

\* re.search(r'Notes:(.*?)$', raw, re.DOTALL): the leftmost "Notes:" of the
\* whole text, and everything after it up to the end of the text, or up to the
\* newline that ends the text; None if there is no match, else group(1)
NotesMatch(raw) ==
    LET starts == {i \in 1..Len(raw) : MatchAt(raw, i, << "Notes", ":" >>)}
    IN  IF starts = {} THEN None
        ELSE LET rest == SubSeq(raw, Min(starts) + 2, Len(raw))
             IN  Some(IF rest # <<>> /\ rest[Len(rest)] = "\n"
                      THEN SubSeq(rest, 1, Len(rest) - 1)
                      ELSE rest)

\* re.match(r'(\d{1,2}:\d{2} [AP]M) - (\d{1,2}:\d{2} [AP]M): (.*?)$', line),
\* anchored at the start of the line; None if there is no match
TimeMatch(line) ==
    IF /\ Len(line) >= 7
       /\ line[1] \in Times
       /\ SubSeq(line, 2, 4) = << " ", "-", " " >>
       /\ line[5] \in Times
       /\ SubSeq(line, 6, 7) = << ":", " " >>
       /\ \A k \in 8..Len(line) : line[k] # "\n"
    THEN Some([start_time |-> line[1], end_time |-> line[5],
               activity |-> SubSeq(line, 8, Len(line))])
    ELSE None

\* " [format?]", the marker of a malformed line
FormatMarker == << " ", "[format?]" >>

\* the loop of lines 232-242 with a line that does not match dropped
RECURSIVE FormatLinesDropsMalformed(_)
FormatLinesDropsMalformed(lines) ==
    IF lines = <<>> THEN <<>>
    ELSE LET line == Head(lines)
             time_match == TimeMatch(line)
         IN  IF StripWs(line) = <<>> \/ time_match = None
             THEN FormatLinesDropsMalformed(Tail(lines))
             ELSE << << time_match[1].start_time >> \o << " ", "-", " " >>
                        \o << time_match[1].end_time >> \o << ":", " " >>
                        \o time_match[1].activity >>
                  \o FormatLinesDropsMalformed(Tail(lines))

\* the loop of lines 232-242: blank lines are skipped, a line that matches is
\* put together again from its groups, another line gets the marker
RECURSIVE FormatLines(_)
FormatLines(lines) ==
    IF lines = <<>> THEN <<>>
    ELSE LET line == Head(lines)
             time_match == TimeMatch(line)
         IN  IF StripWs(line) = <<>> THEN FormatLines(Tail(lines))
             ELSE IF time_match # None
             THEN << << time_match[1].start_time >> \o << " ", "-", " " >>
                        \o << time_match[1].end_time >> \o << ":", " " >>
                        \o time_match[1].activity >>
                  \o FormatLines(Tail(lines))
             ELSE << line \o FormatMarker >> \o FormatLines(Tail(lines))

\* "# Today's Schedule\n\n"
ScheduleHeading == << "#", " ", "Today's", " ", "Schedule", "\n", "\n" >>

\* "\n## Notes\n\n"
NotesHeading == << "\n", "#", "#", " ", "Notes", "\n", "\n" >>

\* f"- {line}\n" for every line
RECURSIVE Bullets(_)
Bullets(lines) ==
    IF lines = <<>> THEN <<>>
    ELSE << "-", " " >> \o Head(lines) \o << "\n" >> \o Bullets(Tail(lines))

\* _parse_schedule whose fallback formats the lines of the whole text
ParseScheduleFormatsFallback(raw_text) ==
    LET schedule_match == ScheduleMatch(raw_text)
        lines == Split(StripWs(IF schedule_match = None THEN raw_text
                               ELSE schedule_match[1]), "\n")
        notes_match == NotesMatch(raw_text)
        notes_text == IF notes_match = None THEN <<>>
                      ELSE StripWs(notes_match[1])
    IN  ScheduleHeading \o Bullets(FormatLines(lines))
        \o (IF notes_text # <<>>
            THEN NotesHeading \o notes_text \o << "\n" >>
            ELSE <<>>)

\* _parse_schedule
ParseSchedule(raw_text) ==
    LET schedule_match == ScheduleMatch(raw_text)
    IN  IF schedule_match = None THEN raw_text
        ELSE LET lines == Split(StripWs(schedule_match[1]), "\n")
                 notes_match == NotesMatch(raw_text)
                 notes_text == IF notes_match = None THEN <<>>
                               ELSE StripWs(notes_match[1])
             IN  ScheduleHeading \o Bullets(FormatLines(lines))
                 \o (IF notes_text # <<>>
                     THEN NotesHeading \o notes_text \o << "\n" >>
                     ELSE <<>>)

\* lines 276-281 of refine_schedule: of the lines of the schedule, those that
\* start with "- " once stripped, without the "- "
RECURSIVE StripBulletLines(_)
StripBulletLines(lines) ==
    IF lines = <<>> THEN <<>>
    ELSE LET line == StripWs(Head(lines))
         IN  IF StartsWithSeq(line, << "-", " " >>)
             THEN << SubSeq(line, 3, Len(line)) >> \o StripBulletLines(Tail(lines))
             ELSE StripBulletLines(Tail(lines))

StripBullets(original_schedule) == StripBulletLines(Split(original_schedule, "\n"))

\* the schedule is formatted: generate_schedule and refine_schedule return
\* _parse_schedule(raw_schedule)
CallParseSchedule ==
    /\ final_schedule = None
    /\ final_schedule' = Some(ParseSchedule(raw_schedule))
    /\ UNCHANGED << raw_schedule, schedule_lines, storeVars, calcVars,
                    genVars, pushVars,
                    clockVars >>

\* refine_schedule is given the formatted schedule and strips its bullets
RefineStrip ==
    /\ final_schedule # None
    /\ schedule_lines = None
    /\ schedule_lines' = Some(StripBullets(final_schedule[1]))
    /\ UNCHANGED << raw_schedule, final_schedule, storeVars, calcVars,
                    genVars, pushVars,
                    clockVars >>

\* ------------------------------------------------------------------------
\* The last-schedule file and push_schedule_to_calendar
\* ------------------------------------------------------------------------

\* get_last_schedule: the text of the file, "" if there is no file
GetLastSchedule(file) == IF file = None THEN <<>> ELSE file[1]

\* the first position of the line at which time_pattern matches, as re.search
\* finds it; 0 if there is none
SearchEntryAt(line) ==
    LET at == {k \in 1..Len(line) :
                  /\ k + 6 <= Len(line)
                  /\ line[k] \in Times
                  /\ SubSeq(line, k + 1, k + 3) = << " ", "-", " " >>
                  /\ line[k + 4] \in Times
                  /\ SubSeq(line, k + 5, k + 6) = << ":", " " >>}
    IN  IF at = {} THEN 0 ELSE Min(at)

\* (.*?)(\((.*?)\))?$ on what follows the times: the activity ends before the
\* first "(" if the text ends with ")", and the goal name is what lies between
\* the two; otherwise the activity is all of it and there is no goal name
SplitActivity(rest) ==
    LET opens == {p \in 1..(Len(rest) - 1) : rest[p] = "("}
    IN  IF rest # <<>> /\ rest[Len(rest)] = ")" /\ opens # {}
        THEN [activity |-> SubSeq(rest, 1, Min(opens) - 1),
              goal_name |-> SubSeq(rest, Min(opens) + 1, Len(rest) - 1)]
        ELSE [activity |-> rest, goal_name |-> <<>>]

\* A word stands for one character in a schedule text; the colour rule looks
\* inside it, so these are the characters each word of a label is written with
Spell(word) ==
    CASE word = "Read" -> << "R", "e", "a", "d" >>
      [] word = "Reading" -> << "R", "e", "a", "d", "i", "n", "g" >>
      [] word = "Code" -> << "C", "o", "d", "e" >>
      [] word = "Coding" -> << "C", "o", "d", "i", "n", "g" >>
      [] word = "Break" -> << "B", "r", "e", "a", "k" >>
      [] word = "Lunch" -> << "L", "u", "n", "c", "h" >>
      [] word = "Review" -> << "R", "e", "v", "i", "e", "w" >>
      [] word = "Notes" -> << "N", "o", "t", "e", "s" >>
      [] word = "chapter" -> << "c", "h", "a", "p", "t", "e", "r" >>
      [] OTHER -> << word >>

RECURSIVE Characters(_)
Characters(text) ==
    IF text = <<>> THEN <<>> ELSE Spell(Head(text)) \o Characters(Tail(text))

UpperCase == << "A", "B", "C", "D", "E", "F", "G", "H", "I", "J", "K", "L", "M",
                "N", "O", "P", "Q", "R", "S", "T", "U", "V", "W", "X", "Y", "Z" >>
LowerCase == << "a", "b", "c", "d", "e", "f", "g", "h", "i", "j", "k", "l", "m",
                "n", "o", "p", "q", "r", "s", "t", "u", "v", "w", "x", "y", "z" >>

\* the place of c in letters, 0 if it is none of them
PlaceIn(letters, c) ==
    IF \E i \in DOMAIN letters : letters[i] = c
    THEN CHOOSE i \in DOMAIN letters : letters[i] = c
    ELSE 0

\* ord(c) for the characters of a label
Ord(c) ==
    IF PlaceIn(UpperCase, c) > 0 THEN 64 + PlaceIn(UpperCase, c)
    ELSE IF PlaceIn(LowerCase, c) > 0 THEN 96 + PlaceIn(LowerCase, c)
    ELSE CASE c = " " -> 32
           [] c = "(" -> 40
           [] c = ")" -> 41
           [] c = "-" -> 45
           [] c = ":" -> 58

\* str.lower() on the characters of a label
Lower(chars) ==
    [i \in DOMAIN chars |->
        IF PlaceIn(UpperCase, chars[i]) > 0
        THEN LowerCase[PlaceIn(UpperCase, chars[i])] ELSE chars[i]]

\* pat in s
In(pat, s) == \E i \in 1..Len(s) : MatchAt(s, i, pat)

RECURSIVE SumOrd(_)
SumOrd(chars) == IF chars = <<>> THEN 0 ELSE Ord(Head(chars)) + SumOrd(Tail(chars))

\* the tag of a break or lunch
BreakColor == << "7" >>

\* the number of tags the goals share
PaletteSize == 11

\* lines 183-192 with the hash taken before the label is looked at
ColorIdGoalFirst(activity, goal_name) ==
    IF goal_name # <<>>
    THEN Some(IntStr((SumOrd(Characters(goal_name)) % PaletteSize) + 1))
    ELSE IF \/ In(<< "b", "r", "e", "a", "k" >>, Lower(Characters(activity)))
            \/ In(<< "l", "u", "n", "c", "h" >>, Lower(Characters(activity)))
    THEN Some(BreakColor)
    ELSE None

\* lines 183-192: the color_id of an entry
ColorId(activity, goal_name) ==
    LET activity_lower == Lower(Characters(activity))
    IN  IF \/ In(<< "b", "r", "e", "a", "k" >>, activity_lower)
           \/ In(<< "l", "u", "n", "c", "h" >>, activity_lower)
        THEN Some(BreakColor)
        ELSE IF goal_name # <<>>
        THEN Some(IntStr((SumOrd(Characters(goal_name)) % PaletteSize) + 1))
        ELSE None

\* lines 160-192 for one line of the schedule: None for a line the loop passes
\* over, else the event it asks create_event for
PushEntry(raw_line) ==
    LET stripped == StripWs(raw_line)
        line == IF StartsWithSeq(stripped, << "-", " " >>)
                THEN StripWs(SubSeq(stripped, 3, Len(stripped)))
                ELSE stripped
        k == SearchEntryAt(line)
        groups == SplitActivity(SubSeq(line, k + 7, Len(line)))
    IN  IF stripped = <<>> \/ stripped[1] = "#" \/ stripped[1] = Fence \/ k = 0
        THEN None
        ELSE Some([start_time |-> line[k],
                   end_time |-> line[k + 4],
                   summary |-> IF groups.goal_name # <<>>
                               THEN groups.activity \o << " ", "(" >>
                                    \o groups.goal_name \o << ")" >>
                               ELSE groups.activity,
                   activity |-> groups.activity,
                   goal_name |-> groups.goal_name,
                   color_id |-> ColorId(groups.activity, groups.goal_name)])

\* the characters a clock time is written with
SpellTime(time) ==
    CASE time = "9:00 AM" -> << "9", ":", "0", "0", " ", "A", "M" >>
      [] time = "10:00 AM" -> << "1", "0", ":", "0", "0", " ", "A", "M" >>
      [] time = "10:15 AM" -> << "1", "0", ":", "1", "5", " ", "A", "M" >>
      [] time = "11:00 PM" -> << "1", "1", ":", "0", "0", " ", "P", "M" >>
      [] time = "12:00 AM" -> << "1", "2", ":", "0", "0", " ", "A", "M" >>
      [] time = "13:00 PM" -> << "1", "3", ":", "0", "0", " ", "P", "M" >>

\* a datetime: the day, counted from the day the push began, and the minute of
\* that day
DateTime(day, hour, minute) == [day |-> day, minute |-> hour * 60 + minute]

\* a < b on datetimes
Before(a, b) == a.day < b.day \/ (a.day = b.day /\ a.minute < b.minute)

\* parse_time_string for a text that matched \d{1,2}:\d{2} [AP]M, called on the
\* day today: only the format %I:%M %p can fit it, and does if the hour is one
\* of 1..12 and the minute one of 00..59; None stands for the ValueError
ParseTimeString(time_str, today) ==
    LET chars == SpellTime(time_str)
        colon == CHOOSE i \in DOMAIN chars : chars[i] = ":"
        hour_12 == IF colon = 2 THEN DigitVal(chars[1])
                   ELSE DigitVal(chars[1]) * 10 + DigitVal(chars[2])
        minute == DigitVal(chars[colon + 1]) * 10 + DigitVal(chars[colon + 2])
        pm == chars[colon + 4] = "P"
    IN  IF hour_12 \notin 1..12 \/ minute \notin 0..59 THEN None
        ELSE Some(DateTime(today, (hour_12 % 12) + (IF pm THEN 12 ELSE 0), minute))

\* lines 112-117 without the step to the next day
EventTimesSameDay(start_time, end_time, today) ==
    LET start_dt == ParseTimeString(start_time, today)
        end_dt == ParseTimeString(end_time, today)
    IN  IF start_dt = None \/ end_dt = None THEN None
        ELSE Some([start_dt |-> start_dt[1], end_dt |-> end_dt[1]])

\* lines 112-117 of create_event: the two times parsed on the day today, which
\* both parse_time_string calls read from the clock, and the end moved a day
\* on if it is before the start; None if a time does not parse
EventTimes(start_time, end_time, today) ==
    LET start_dt == ParseTimeString(start_time, today)
        end_dt == ParseTimeString(end_time, today)
    IN  IF start_dt = None \/ end_dt = None THEN None
        ELSE Some([start_dt |-> start_dt[1],
                   end_dt |-> IF Before(end_dt[1], start_dt[1])
                              THEN [end_dt[1] EXCEPT !.day = @ + 1]
                              ELSE end_dt[1]])

\* the day of the push; the days are counted from it
Today == 0

\* what create_event may do: return the event, return None (a time that does
\* not parse, a request the service refuses), or raise
CreateOutcomes == {"event", "none", "raise"}

\* gcal push of the CLI up to the loop of push_schedule_to_calendar: the last
\* schedule is read, the calendar id is taken from the option or the config
\* file, a GoogleCalendarAPI is made and authenticated; the command ends at
\* the first of these that fails
GcalPush(calendar_option, auth_ok) ==
    /\ pc = "idle"
    /\ push_pc = "idle"
    /\ LET text == GetLastSchedule(last_schedule)
           calendar == IF calendar_option # None THEN calendar_option
                       ELSE LoadCalendarId(disk, disk_calendar_id)
       IN  IF text = <<>> \/ calendar = None
           THEN UNCHANGED pushVars
           ELSE IF ~auth_ok
           THEN /\ service' = None
                /\ UNCHANGED << push_pc, schedule_text, push_lines, attempts,
                                events_created, errors >>
           ELSE /\ service' = Some("calendar")
                /\ push_pc' = "push"
                /\ schedule_text' = text
                /\ push_lines' = Split(text, "\n")
                /\ attempts' = <<>>
                /\ events_created' = 0
                /\ errors' = <<>>
    /\ UNCHANGED << storeVars, calcVars, textVars, genVars,
                    clockVars >>

\* one iteration of the loop for a line that asks for no event
SkipLine ==
    /\ push_pc = "push"
    /\ push_lines # <<>>
    /\ PushEntry(Head(push_lines)) = None
    /\ push_lines' = Tail(push_lines)
    /\ UNCHANGED << service, push_pc, schedule_text, attempts, events_created,
                    errors, storeVars, calcVars, textVars, genVars,
                    clockVars >>

\* one iteration of the loop in which create_event fails ends the loop
CreateEventStopsOnFailure(outcome) ==
    /\ push_pc = "push"
    /\ push_lines # <<>>
    /\ PushEntry(Head(push_lines)) # None
    /\ LET entry == PushEntry(Head(push_lines))[1]
           times == EventTimes(entry.start_time, entry.end_time, Today)
       IN  /\ times = None => outcome = "none"
           /\ attempts' = Append(attempts,
                 [summary |-> entry.summary, start_time |-> entry.start_time,
                  end_time |-> entry.end_time, color_id |-> entry.color_id,
                  activity |-> entry.activity, goal_name |-> entry.goal_name,
                  times |-> times, outcome |-> outcome])
           /\ events_created' = IF outcome = "event" THEN events_created + 1
                                ELSE events_created
           /\ errors' = IF outcome = "event" THEN errors
                        ELSE Append(errors, << "Failed to create event: " >> \o entry.summary)
    /\ push_lines' = IF outcome = "event" THEN Tail(push_lines) ELSE <<>>
    /\ UNCHANGED << service, push_pc, schedule_text,
                    storeVars, calcVars, textVars, genVars,
                    clockVars >>

\* one iteration of the loop for an entry: create_event is called once, and
\* its outcome is counted or recorded, whatever it is
CreateEvent(outcome) ==
    /\ push_pc = "push"
    /\ push_lines # <<>>
    /\ PushEntry(Head(push_lines)) # None
    /\ LET entry == PushEntry(Head(push_lines))[1]
           times == EventTimes(entry.start_time, entry.end_time, Today)
       IN  /\ times = None => outcome = "none"
           /\ attempts' = Append(attempts,
                 [summary |-> entry.summary, start_time |-> entry.start_time,
                  end_time |-> entry.end_time, color_id |-> entry.color_id,
                  activity |-> entry.activity, goal_name |-> entry.goal_name,
                  times |-> times, outcome |-> outcome])
           /\ events_created' = IF outcome = "event" THEN events_created + 1
                                ELSE events_created
           /\ errors' =
                 IF outcome = "event" THEN errors
                 ELSE IF outcome = "none"
                 THEN Append(errors, << "Failed to create event: " >> \o entry.summary)
                 ELSE Append(errors, << "Error creating event " >> \o entry.summary
                                         \o << ": ", "exception" >>)
    /\ push_lines' = Tail(push_lines)
    /\ UNCHANGED << service, push_pc, schedule_text,
                    storeVars, calcVars, textVars, genVars,
                    clockVars >>

\* line 211: return events_created, errors
ReturnPush ==
    /\ push_pc = "push"
    /\ push_lines = <<>>
    /\ push_pc' = "returned"
    /\ UNCHANGED << service, schedule_text, push_lines, attempts, events_created,
                    errors, storeVars, calcVars, textVars, genVars,
                    clockVars >>

\* ------------------------------------------------------------------------
\* The texts the collaborator may answer with
\* ------------------------------------------------------------------------

\* the longest block, in lines
MaxLines == 2

\* f"{start} - {end}: {label}"
EntryLine(start, end, label) ==
    << start, " ", "-", " ", end, ":", " " >> \o label

ReadLine == EntryLine("9:00 AM", "10:00 AM", << "Read", " ", "(", "Reading", ")" >>)
BreakLine == EntryLine("10:00 AM", "10:15 AM", << "Break" >>)
LunchLine == EntryLine("10:15 AM", "13:00 PM", << "Lunch", " ", "(", "Reading", ")" >>)
CodeLine == EntryLine("11:00 PM", "12:00 AM", << "Code", " ", "(", "Coding", ")" >>)

\* the lines a block may hold: entries, a line that is no entry, a blank line,
\* an entry whose label holds "Notes:", an entry followed by a blank, an
\* indented entry
LineInputs ==
    { ReadLine,
      BreakLine,
      << "not", " ", "a", " ", "time", " ", "range" >>,
      <<>>,
      EntryLine("9:00 AM", "10:15 AM", << "Review", " ", "Notes", ":", " ", "chapter" >>),
      BreakLine \o << " " >>,
      << " " >> \o ReadLine }

BlockInputs == UNION {[1..n -> LineInputs] : n \in 0..MaxLines}

\* what precedes the block
PreambleInputs == { <<>>, << "Here", " ", "you", " ", "go", "\n" >> }

\* what follows the block: nothing, notes in prose, notes as a bullet list
TrailerInputs ==
    { <<>>,
      << "\n", "\n", "Notes", ":", "\n", "Keep", " ", "going", "\n" >>,
      << "\n", "Notes", ":", "\n", "-", " ", "Reading", " ", "first" >> }

\* how the block is fenced: as asked, with a fence that lacks the label, or
\* not at all
OpenInputs == { << Fence, "schedule", "\n" >>, << Fence, "\n" >>, <<>> }

RawText(preamble, open, block, trailer) ==
    preamble \o open \o Join(block, << "\n" >>)
        \o (IF open = <<>> THEN <<>> ELSE << "\n", Fence >>) \o trailer

RawTexts ==
    {RawText(p, o, b, t) : p \in PreambleInputs, o \in OpenInputs,
                           b \in BlockInputs, t \in TrailerInputs}

\* the schedules the last-schedule file may hold: what the formatter returns
\* for a text without preamble whose lines are entries with and without a goal
\* name, a line that is no entry, a blank line or an indented entry, fenced as
\* asked or not at all
SavedSchedules ==
    {ParseSchedule(RawText(<<>>, o, b, t)) :
        o \in { << Fence, "schedule", "\n" >>, <<>> },
        b \in UNION {[1..n -> { ReadLine,
                                BreakLine,
                                LunchLine,
                                CodeLine,
                                << "not", " ", "a", " ", "time", " ", "range" >>,
                                <<>>,
                                << " " >> \o ReadLine }] : n \in 0..MaxLines},
        t \in { <<>>,
                << "\n", "Notes", ":", "\n", "-", " ", "Reading", " ", "first" >> }}

\* ------------------------------------------------------------------------
\* Schedule generation: the CLI commands schedule and today, the menu entries
\* generate_daily_schedule and generate_and_push_to_calendar
\* ------------------------------------------------------------------------

\* the most refine_schedule calls of one generate_daily_schedule
MaxRefinements == 2

\* the texts the collaborator answers a generation or refinement request with
GenRawTexts ==
    { RawText(<<>>, << Fence, "schedule", "\n" >>, << ReadLine >>, <<>>),
      RawText(<<>>, << Fence, "schedule", "\n" >>, << BreakLine >>,
              << "\n", "\n", "Notes", ":", "\n", "Keep", " ", "going", "\n" >>) }

\* what a request ends with: an answer, or None for an exception
ChatOutcomes == {None} \cup {Some(raw) : raw \in GenRawTexts}

NoGoalsMessage == << "No scheduled goals found." >>
InvalidKeyMessage == << "Invalid API key. Please try again." >>
AuthFailedMessage == << "Failed to authenticate with Google Calendar" >>
NoCalendarMessage == << "No calendars found" >>
CancelledMessage == << "Operation cancelled." >>

\* what the except clause of today prints for the import of line 401:
\* interactive has no save_last_schedule
ImportErrorMessage ==
    << "Error generating schedule: ",
       "cannot import name 'save_last_schedule' from 'interactive'" >>

\* generate_schedule past its setup_api_key, which returns the stored key
\* without a request: the request's answer formatted, or the exception reported
GenerateSchedule(outcome) ==
    IF outcome = None THEN << "Failed to generate schedule: ", "exception" >>
    ELSE ParseSchedule(outcome[1])

\* refine_schedule: nothing is asked without a key; else the request's answer
\* formatted, or the exception reported
RefineSchedule(api_key, outcome) ==
    IF api_key = "" THEN << "API key not set up. Cannot refine schedule." >>
    ELSE IF outcome = None THEN << "Failed to refine schedule: ", "exception" >>
    ELSE ParseSchedule(outcome[1])

\* the requests of setup_api_key: with no key stored, the key the user types
\* is stored and saved and _test_api_key asks once; with a key stored, nothing
SetupApiKeyCalls(api_key) == IF api_key = "" THEN << "test" >> ELSE <<>>

\* the key setup_api_key leaves stored, verified or not
SetupApiKeyStored(api_key) == IF api_key = "" THEN "key" ELSE api_key

\* ------------------------------------------------------------------------
\* The default start time
\* ------------------------------------------------------------------------

\* what datetime.now() can read, as [hour, minute]
ClockReadings == [hour : 0 .. 23, minute : 0 .. 59]

\* ((minutes + 14) // 15) * 15
RoundedMinutes(minutes) == ((minutes + 14) \div 15) * 15

\* now.replace(hour=..., minute=..., second=0, microsecond=0); None stands for
\* the ValueError of an hour outside 0..23 or a minute outside 0..59
Replace(now, hour, minute) ==
    IF hour \in 0 .. 23 /\ minute \in 0 .. 59
    THEN Some([hour |-> hour, minute |-> minute])
    ELSE None

\* rounded_time; None if replace raised
RoundedTime(now) ==
    LET rounded_minutes == RoundedMinutes(now.minute)
    IN  IF rounded_minutes >= 60
        THEN Replace(now, now.hour + 1, 0)
        ELSE Replace(now, now.hour, rounded_minutes)

DigitChar(d) ==
    CASE d = 0 -> "0" [] d = 1 -> "1" [] d = 2 -> "2" [] d = 3 -> "3"
      [] d = 4 -> "4" [] d = 5 -> "5" [] d = 6 -> "6" [] d = 7 -> "7"
      [] d = 8 -> "8" [] d = 9 -> "9"

\* a field of strftime: two digits, zero-padded
TwoDigits(n) == << DigitChar(n \div 10), DigitChar(n % 10) >>

\* t.strftime("%I:%M %p"), as characters
Strftime(t) ==
    LET hour_12 == IF t.hour % 12 = 0 THEN 12 ELSE t.hour % 12
    IN  TwoDigits(hour_12) \o << ":" >> \o TwoDigits(t.minute) \o << " " >>
            \o (IF t.hour < 12 THEN << "A", "M" >> ELSE << "P", "M" >>)

\* ValueError("hour must be in 0..23")
HourValueError == << "ValueError", "hour must be in 0..23" >>

\* the default start time of a handler that was given none: what it raised,
\* NoError if nothing, the rounded_time it built and the text made of it
DefaultStartTime(now) ==
    LET rounded_time == RoundedTime(now)
    IN  IF rounded_time = None
        THEN [raised |-> HourValueError, rounded_time |-> None, text |-> <<>>]
        ELSE [raised |-> NoError, rounded_time |-> rounded_time,
              text |-> LStrip(Strftime(rounded_time[1]), {"0"})]

\* the computation on its own, for a reading of the clock
ComputeDefaultStartTime(now) ==
    /\ clock' = Some(now)
    /\ default_start_time' = Some(DefaultStartTime(now))
    /\ UNCHANGED << storeVars, calcVars, textVars, genVars, pushVars >>

\* the start times a handler may be given, None for none, and the clock
\* readings it may then take
StartTimeOptions == {None, Some("9:00 AM")}
HandlerClockReadings == {[hour |-> 9, minute |-> 10], [hour |-> 23, minute |-> 50]}

\* cli schedule and cli today up to their calculate_requirements: a scheduler
\* is constructed from the file, the start time defaults if none was given,
\* which is outside the try of the command, and the pass starts
CliGenerateStart(command, start_time_option, now) ==
    /\ op = "none"
    /\ pc = "idle"
    /\ push_pc # "push"
    /\ config' = LoadConfig(disk)
    /\ calendar_id' = LoadCalendarId(disk, disk_calendar_id)
    /\ chat_calls' = <<>>
    /\ IF start_time_option = None /\ DefaultStartTime(now).raised # NoError
       THEN /\ message' = DefaultStartTime(now).raised
            /\ UNCHANGED << op, pc, todo, fetched, result, error >>
       ELSE /\ op' = command
            /\ pc' = "calc"
            /\ todo' = GetScheduledGoals(config')
            /\ fetched' = <<>>
            /\ result' = EmptyMap
            /\ error' = NoError
            /\ message' = <<>>
    /\ UNCHANGED << disk, disk_calendar_id, last_schedule, llm_api_key, generated,
                    textVars, pushVars,
                    clockVars >>

\* cli schedule and cli today from the return of calculate_requirements: the
\* check for requirements, then the API key check and setup, then
\* generate_schedule; schedule displays the text, today fails on its import
\* of save_last_schedule and reports it
CliGenerate(test_ok, outcome) ==
    /\ op \in {"schedule", "today"}
    /\ pc = "done"
    /\ op' = "none"
    /\ pc' = "idle"
    /\ IF DOMAIN result = {}
       THEN /\ message' = NoGoalsMessage
            /\ UNCHANGED << llm_api_key, chat_calls, generated >>
       ELSE /\ llm_api_key' = SetupApiKeyStored(llm_api_key)
            /\ IF llm_api_key = "" /\ ~test_ok
               THEN /\ chat_calls' = SetupApiKeyCalls(llm_api_key)
                    /\ message' = InvalidKeyMessage
                    /\ UNCHANGED generated
               ELSE /\ chat_calls' = Append(SetupApiKeyCalls(llm_api_key), "generate")
                    /\ generated' = Some(GenerateSchedule(outcome))
                    /\ message' = IF op = "today" THEN ImportErrorMessage ELSE <<>>
    /\ UNCHANGED << storeVars, todo, fetched, result, last_schedule, textVars,
                    pushVars,
                    clockVars >>

\* generate_daily_schedule and generate_and_push_to_calendar up to their
\* calculate_requirements: the API key check and setup come first
InteractiveGenerateStart(entry, test_ok) ==
    /\ op = "none"
    /\ pc = "idle"
    /\ push_pc # "push"
    /\ llm_api_key' = SetupApiKeyStored(llm_api_key)
    /\ chat_calls' = SetupApiKeyCalls(llm_api_key)
    /\ fetched' = <<>>
    /\ result' = EmptyMap
    /\ error' = NoError
    /\ IF llm_api_key = "" /\ ~test_ok
       THEN /\ message' = InvalidKeyMessage
            /\ UNCHANGED << op, pc, todo >>
       ELSE /\ message' = <<>>
            /\ op' = entry
            /\ pc' = "calc"
            /\ todo' = GetScheduledGoals(config)
    /\ UNCHANGED << config, calendar_id, disk, disk_calendar_id, last_schedule,
                    generated, textVars, pushVars,
                    clockVars >>

\* both menu entries from the return of calculate_requirements: the check for
\* requirements, then the default start time, whose exception ends the menu,
\* then generate_schedule and save_last_schedule
InteractiveGenerate(outcome, now) ==
    /\ op \in {"generate", "generate_and_push"}
    /\ pc = "done"
    /\ pc' = "idle"
    /\ IF DOMAIN result = {}
       THEN /\ message' = NoGoalsMessage
            /\ op' = "none"
            /\ UNCHANGED << chat_calls, generated, last_schedule >>
       ELSE IF DefaultStartTime(now).raised # NoError
       THEN /\ message' = DefaultStartTime(now).raised
            /\ op' = "none"
            /\ UNCHANGED << chat_calls, generated, last_schedule >>
       ELSE /\ chat_calls' = Append(chat_calls, "generate")
            /\ generated' = Some(GenerateSchedule(outcome))
            /\ last_schedule' = generated'
            /\ op' = IF op = "generate" THEN "refine" ELSE "calendar"
            /\ UNCHANGED message
    /\ UNCHANGED << storeVars, todo, fetched, result, llm_api_key, textVars,
                    pushVars,
                    clockVars >>

\* one round of the loop of generate_daily_schedule whose answer is yes:
\* refine_schedule, then save_last_schedule
Refine(outcome) ==
    /\ op = "refine"
    /\ Len(SelectSeq(chat_calls, LAMBDA c : c = "refine")) < MaxRefinements
    /\ chat_calls' = IF llm_api_key = "" THEN chat_calls
                     ELSE Append(chat_calls, "refine")
    /\ generated' = Some(RefineSchedule(llm_api_key, outcome))
    /\ last_schedule' = generated'
    /\ UNCHANGED << storeVars, calcVars, op, llm_api_key, message, textVars,
                    pushVars,
                    clockVars >>

\* the answer that ends the loop
FinishRefine ==
    /\ op = "refine"
    /\ op' = "none"
    /\ UNCHANGED << storeVars, calcVars, last_schedule, llm_api_key, chat_calls,
                    generated, message, textVars, pushVars,
                    clockVars >>

\* generate_and_push_to_calendar from its save to the loop of
\* push_schedule_to_calendar: the calendar id of the config file, the
\* authentication, the choice of a calendar if none is stored (selected; None
\* for no calendars or no valid choice), the confirmation.  The config file
\* exists here, since goals are scheduled
SelectAndPush(auth_ok, selected, save_default, confirm) ==
    /\ op = "calendar"
    /\ LET stored == LoadCalendarId(disk, disk_calendar_id)
           calendar == IF stored # None THEN stored ELSE selected
       IN  IF ~auth_ok
           THEN /\ service' = None
                /\ message' = AuthFailedMessage
                /\ op' = "none"
                /\ UNCHANGED << disk_calendar_id, push_pc, schedule_text,
                                push_lines, attempts, events_created, errors >>
           ELSE /\ service' = Some("calendar")
                /\ disk_calendar_id' = IF stored = None /\ selected # None /\ save_default
                                       THEN selected ELSE disk_calendar_id
                /\ IF calendar = None \/ ~confirm
                   THEN /\ message' = IF calendar = None THEN NoCalendarMessage
                                      ELSE CancelledMessage
                        /\ op' = "none"
                        /\ UNCHANGED << push_pc, schedule_text, push_lines,
                                        attempts, events_created, errors >>
                   ELSE /\ op' = "push"
                        /\ push_pc' = "push"
                        /\ schedule_text' = generated[1]
                        /\ push_lines' = Split(generated[1], "\n")
                        /\ attempts' = <<>>
                        /\ events_created' = 0
                        /\ errors' = <<>>
                        /\ UNCHANGED message
    /\ UNCHANGED << config, calendar_id, disk, error, calcVars, last_schedule,
                    llm_api_key, chat_calls, generated, textVars,
                    clockVars >>

\* generate_and_push_to_calendar from the return of push_schedule_to_calendar
FinishPush ==
    /\ op = "push"
    /\ push_pc = "returned"
    /\ op' = "none"
    /\ UNCHANGED << storeVars, calcVars, last_schedule, llm_api_key, chat_calls,
                    generated, message, textVars, pushVars,
                    clockVars >>

\* ------------------------------------------------------------------------
\* Specification
\* ------------------------------------------------------------------------

\* no text has been generated, formatted or stripped
TextInit ==
    /\ raw_schedule = <<>>
    /\ final_schedule = None
    /\ schedule_lines = None

\* no handler is under way, no API key is stored, no schedule was generated
FlowInit ==
    /\ op = "none"
    /\ llm_api_key = ""
    /\ chat_calls = <<>>
    /\ generated = None
    /\ message = <<>>

\* no schedule has been saved
GenInit ==
    /\ last_schedule = None
    /\ FlowInit

\* no GoogleCalendarAPI object exists, no push is under way
PushInit ==
    /\ service = None
    /\ push_pc = "idle"
    /\ schedule_text = <<>>
    /\ push_lines = <<>>
    /\ attempts = <<>>
    /\ events_created = 0
    /\ errors = <<>>

\* no default start time has been computed
ClockInit ==
    /\ clock = None
    /\ default_start_time = None

LlmInit ==
    /\ TextInit
    /\ GenInit
    /\ PushInit
    /\ ClockInit

\* a scheduler constructed with no config file: _load_config's default
StoreInit ==
    /\ config = <<>>
    /\ calendar_id = None
    /\ disk = None
    /\ disk_calendar_id = None
    /\ error = NoError

\* no pass is under way
CalcInit ==
    /\ pc = "idle"
    /\ todo = <<>>
    /\ fetched = <<>>
    /\ result = EmptyMap

Init ==
    /\ StoreInit
    /\ CalcInit
    /\ LlmInit

Next ==
    \/ \E slug \in Slugs, name \in NameInputs, h \in CliHoursInputs,
          check_ok \in BOOLEAN, ok \in BOOLEAN :
            CliAdd(slug, name, h, check_ok, ok)
    \/ \E slug \in Slugs, name \in NameInputs, h \in HoursInputs, ok \in BOOLEAN :
            AddGoal(slug, name, h, ok)
    \/ \E slug \in Slugs : RemoveGoal(slug)
    \/ \E slug \in Slugs, name \in NameInputs,
          h \in {None} \cup {Some(x) : x \in HoursInputs} :
            UpdateGoal(slug, name, h)
    \/ StartCalc
    \/ \E tel \in Telemetry : FetchOk(tel)
    \/ FetchFail
    \/ ReturnCalc
    \/ Finish

Spec == Init /\ [][Next]_vars

\* the goal store alone, as the CLI commands and one interactive session use it
StoreNext ==
    \/ \E slug \in Slugs, name \in NameInputs, h \in CliHoursInputs,
          check_ok \in BOOLEAN, ok \in BOOLEAN :
            CliAdd(slug, name, h, check_ok, ok)
    \/ \E slug \in Slugs : CliRemove(slug)
    \/ Construct
    \/ \E slug \in Slugs, name \in NameInputs,
          h \in {None} \cup {Some(x) : x \in HoursInputs},
          goals_ok \in BOOLEAN, ok \in BOOLEAN :
            AddGoalToScheduling(slug, name, h, goals_ok, ok)
    \/ \E slug \in Slugs, confirm \in BOOLEAN :
            RemoveGoalFromScheduling(slug, confirm)
    \/ \E slug \in Slugs, name \in NameInputs,
          h \in {None} \cup {Some(x) : x \in HoursInputs} :
            EditGoalSettings(slug, name, h)
    \/ \E slug \in Slugs, name \in NameInputs, h \in HoursInputs, ok \in BOOLEAN :
            AddGoal(slug, name, h, ok)
    \/ \E slug \in Slugs : RemoveGoal(slug)
    \/ \E slug \in Slugs, name \in NameInputs,
          h \in {None} \cup {Some(x) : x \in HoursInputs} :
            UpdateGoal(slug, name, h)
    \/ \E id \in CalendarIds : ListGoogleCalendars(id)
    \/ \E has_primary \in BOOLEAN : GcalCalendars(has_primary)

StoreSpec == Init /\ [][StoreNext]_vars

\* the formatter and the stripping step of the refinement, applied to every
\* text the collaborator may answer with
FormatInit ==
    /\ StoreInit
    /\ CalcInit
    /\ raw_schedule \in RawTexts
    /\ final_schedule = None
    /\ schedule_lines = None
    /\ GenInit
    /\ PushInit
    /\ ClockInit

FormatNext ==
    \/ CallParseSchedule
    \/ RefineStrip

FormatSpec == FormatInit /\ [][FormatNext]_vars

\* gcal push, for every schedule the last-schedule file may hold
PushSpecInit ==
    /\ StoreInit
    /\ CalcInit
    /\ TextInit
    /\ last_schedule \in {None} \cup {Some(t) : t \in SavedSchedules}
    /\ FlowInit
    /\ PushInit
    /\ ClockInit

PushNext ==
    \/ \E option \in {None} \cup {Some(id) : id \in CalendarIds},
          auth_ok \in BOOLEAN :
            GcalPush(option, auth_ok)
    \/ SkipLine
    \/ \E outcome \in CreateOutcomes : CreateEvent(outcome)
    \/ ReturnPush

PushSpec == PushSpecInit /\ [][PushNext]_vars

\* schedule generation through its four entry points, between changes of the
\* goal store
GenNext ==
    \/ \E slug \in Slugs : op = "none" /\ CliAdd(slug, None, None, TRUE, TRUE)
    \/ \E slug \in Slugs : op = "none" /\ CliRemove(slug)
    \/ \E command \in {"schedule", "today"}, start_time_option \in StartTimeOptions,
          now \in HandlerClockReadings :
            CliGenerateStart(command, start_time_option, now)
    \/ op # "none" /\ FetchOk(DefaultTel)
    \/ op # "none" /\ FetchFail
    \/ op # "none" /\ ReturnCalc
    \/ \E test_ok \in BOOLEAN, outcome \in ChatOutcomes : CliGenerate(test_ok, outcome)
    \/ \E entry \in {"generate", "generate_and_push"}, test_ok \in BOOLEAN :
            InteractiveGenerateStart(entry, test_ok)
    \/ \E outcome \in ChatOutcomes, now \in HandlerClockReadings :
            InteractiveGenerate(outcome, now)
    \/ \E outcome \in ChatOutcomes : Refine(outcome)
    \/ FinishRefine
    \/ \E auth_ok \in BOOLEAN, selected \in {None} \cup {Some(id) : id \in CalendarIds},
          save_default \in BOOLEAN, confirm \in BOOLEAN :
            SelectAndPush(auth_ok, selected, save_default, confirm)
    \/ op = "push" /\ SkipLine
    \/ \E outcome \in CreateOutcomes : op = "push" /\ CreateEvent(outcome)
    \/ op = "push" /\ ReturnPush
    \/ FinishPush

GenSpec == Init /\ [][GenNext]_vars

\* the default start time, for every reading of the clock
ClockNext == \E now \in ClockReadings : ComputeDefaultStartTime(now)

ClockSpec == Init /\ [][ClockNext]_vars

\* ------------------------------------------------------------------------
\* Properties of calculate_requirements
\* ------------------------------------------------------------------------

\* the get_goal calls of the pass under way or just returned
Calls == DOMAIN fetched

Emitted(i) == fetched[i].slug \in DOMAIN result
Req(i) == result[fetched[i].slug]

\* the call returned telemetry with a current value
HasData(i) == fetched[i].ok /\ fetched[i].tel.curval # None

\* H + MM/60
HMValue(h, m) == RAdd(RInt(h), Rat(m, 60))

IsHM(b, sign, h, m) == b = BareminStr(HMString(sign, h, m))

NumericValue(s) ==
    CASE s = << "+", "1", ".", "5" >> -> Rat(3, 2)
      [] s = << "-", "2" >> -> RInt(-2)

\* C1: when calculate_requirements has returned, it has visited every
\* configured goal, and the result holds an entry for exactly the goals whose
\* fetch succeeded: one for each success, none for a failure.
C1_EntryForEverySuccessfulFetch ==
    pc = "done" =>
        /\ Len(fetched) = Len(config)
        /\ \A i \in Calls : fetched[i].ok <=> Emitted(i)

\* C2: telemetry with a target value and a current value yields
\* hours_needed = max(0, d) * hours_per_unit, d = target - current when
\* directionality > 0 and current - target otherwise.
C2_TargetBasedHoursNeeded ==
    \A i \in Calls :
        LET tel == fetched[i].tel
            d == IF tel.yaw > 0 THEN tel.goalval[1] - tel.curval[1]
                 ELSE tel.curval[1] - tel.goalval[1]
            clamped == IF d < 0 THEN 0 ELSE d
        IN  (HasData(i) /\ tel.goalval # None) =>
                /\ Emitted(i)
                /\ Req(i).hours_needed = RMul(RInt(clamped), fetched[i].goal.hours_per_unit)

\* C3: a requirement emitted for telemetry without a current value is flagged
\* missing_data and has hours_needed = 0 and hours_per_day = 0, whatever the
\* other fields; a current value of 0 is data.
C3_MissingDataOwesNothing ==
    \A i \in Calls :
        (fetched[i].ok /\ Emitted(i)) =>
            /\ fetched[i].tel.curval = None =>
                    /\ Req(i).missing_data
                    /\ Req(i).hours_needed = RZero
                    /\ Req(i).hours_per_day = RZero
            /\ fetched[i].tel.curval # None => ~Req(i).missing_data

\* C3 witness: the pass returned a requirement flagged missing_data for a goal
\* without current value whose minimum-due figure is a bare number, and one
\* not flagged for a goal whose current value is 0.
C3_Witness ==
    /\ pc = "done"
    /\ \E i \in Calls :
            /\ fetched[i].ok /\ fetched[i].tel.curval = None
            /\ fetched[i].tel.baremin.kind = "num"
            /\ Emitted(i) /\ Req(i).missing_data
    /\ \E i \in Calls :
            /\ fetched[i].ok /\ fetched[i].tel.curval = Some(0)
            /\ Emitted(i) /\ ~Req(i).missing_data

\* C4 as claimed: "-H:MM" parses to -(H + MM/60), which is negative; "+H:MM"
\* and "H:MM" parse to H + MM/60; a numeric string without colon parses to its
\* value.
C4_ParsedDeltaNegativeForMinus ==
    \A i \in Calls :
        HasData(i) =>
            /\ \A sign \in Signs, h \in 0..MaxHours, m \in MinuteValues :
                    IsHM(fetched[i].tel.baremin, sign, h, m) =>
                        /\ Emitted(i)
                        /\ IF sign = << "-" >>
                           THEN /\ Req(i).delta = RNeg(HMValue(h, m))
                                /\ RLess(Req(i).delta, RZero)
                           ELSE Req(i).delta = HMValue(h, m)
            /\ \A s \in NumericStrings :
                    fetched[i].tel.baremin = BareminStr(s) =>
                        Emitted(i) /\ Req(i).delta = NumericValue(s)

\* C4 amended: "-H:MM" parses to -(H + MM/60), which is negative exactly when
\* H + MM/60 > 0 and is zero for "-0:00"; "+H:MM" and "H:MM" parse to
\* H + MM/60; a numeric string without colon parses to its value.
C4_ParsedDelta ==
    \A i \in Calls :
        HasData(i) =>
            /\ \A sign \in Signs, h \in 0..MaxHours, m \in MinuteValues :
                    IsHM(fetched[i].tel.baremin, sign, h, m) =>
                        /\ Emitted(i)
                        /\ IF sign = << "-" >>
                           THEN /\ Req(i).delta = RNeg(HMValue(h, m))
                                /\ RLess(Req(i).delta, RZero) <=> (h > 0 \/ m > 0)
                           ELSE Req(i).delta = HMValue(h, m)
            /\ \A s \in NumericStrings :
                    fetched[i].tel.baremin = BareminStr(s) =>
                        Emitted(i) /\ Req(i).delta = NumericValue(s)

\* C4 witness: the pass returned delta = -3/2 for the minimum-due "-1:30"
C4_Witness ==
    /\ pc = "done"
    /\ \E i \in Calls :
            /\ HasData(i) /\ IsHM(fetched[i].tel.baremin, << "-" >>, 1, 30)
            /\ Emitted(i) /\ Req(i).delta = Rat(-3, 2)

\* C5: for a goal with data, hours_needed = |delta| * hours_per_unit whatever
\* the sign of delta: "-H:MM", "+H:MM" and "H:MM" all give
\* (H + MM/60) * hours_per_unit, and "-0:30" at 1.0 hours per unit gives 0.5.
C5_HoursNeededIgnoresSign ==
    \A i \in Calls :
        (HasData(i) /\ Emitted(i)) =>
            LET hpu == fetched[i].goal.hours_per_unit IN
            /\ Req(i).hours_needed = RMul(RAbs(Req(i).delta), hpu)
            /\ \A sign \in Signs, h \in 0..MaxHours, m \in MinuteValues :
                    IsHM(fetched[i].tel.baremin, sign, h, m) =>
                        Req(i).hours_needed = RMul(HMValue(h, m), hpu)
            /\ (IsHM(fetched[i].tel.baremin, << "-" >>, 0, 30) /\ hpu = RInt(1)) =>
                    Req(i).hours_needed = Rat(1, 2)

\* C5 witness: the pass returned hours_needed = 1/2 for "-0:30" at 1.0 hours
\* per unit
C5_Witness ==
    /\ pc = "done"
    /\ \E i \in Calls :
            /\ HasData(i) /\ IsHM(fetched[i].tel.baremin, << "-" >>, 0, 30)
            /\ fetched[i].goal.hours_per_unit = RInt(1)
            /\ Emitted(i) /\ Req(i).hours_needed = Rat(1, 2)

\* a minimum-due figure that is no number in either notation
Unparseable(b) ==
    \/ b.kind \in {"null", "num"}
    \/ b.kind = "str" /\ b.s \in MalformedStrings

\* C6: a minimum-due figure that cannot be parsed (a malformed string, a bare
\* number, a null) still yields the goal's requirement, with delta = 0 and
\* hours_needed = 0.
C6_UnparseableFigureKeepsGoal ==
    \A i \in Calls :
        (HasData(i) /\ Unparseable(fetched[i].tel.baremin)) =>
            /\ Emitted(i)
            /\ Req(i).delta = RZero
            /\ Req(i).hours_needed = RZero

\* the urgency names of the colours the code returns
Critical == "red"
Tomorrow == "yellow"
Soon == "blue"
Routine == "green"
Distant == "gray"

\* C7: the urgency of every emitted requirement, with or without data, is the
\* step function of the telemetry's safety buffer: < 1 critical, < 2 tomorrow,
\* < 3 soon, < 7 routine, otherwise distant.
C7_UrgencyStepFunction ==
    \A i \in Calls :
        (fetched[i].ok /\ Emitted(i)) =>
            LET b == fetched[i].tel.safebuf IN
            /\ Req(i).safebuf = b
            /\ b < 1 => Req(i).urgency = Critical
            /\ (1 <= b /\ b < 2) => Req(i).urgency = Tomorrow
            /\ (2 <= b /\ b < 3) => Req(i).urgency = Soon
            /\ (3 <= b /\ b < 7) => Req(i).urgency = Routine
            /\ b >= 7 => Req(i).urgency = Distant

\* C7 witness: one pass returned a requirement without data and one with
\* data, both of safety buffer 2 and both classified soon.
C7_Witness ==
    /\ pc = "done"
    /\ \E i, j \in Calls :
            /\ fetched[i].ok /\ fetched[j].ok
            /\ fetched[i].tel.curval = None /\ fetched[j].tel.curval # None
            /\ fetched[i].tel.safebuf = 2 /\ fetched[j].tel.safebuf = 2
            /\ Emitted(i) /\ Emitted(j)
            /\ Req(i).urgency = Soon /\ Req(j).urgency = Soon

\* C8 as claimed: the buffers -5, 0, 1, 2, 6, 7 are classified critical,
\* critical, tomorrow, soon, soon, distant.
C8_SampleUrgenciesSixIsSoon ==
    \A s \in DOMAIN result :
        LET r == result[s] IN
        /\ r.safebuf = -5 => r.urgency = Critical
        /\ r.safebuf = 0 => r.urgency = Critical
        /\ r.safebuf = 1 => r.urgency = Tomorrow
        /\ r.safebuf = 2 => r.urgency = Soon
        /\ r.safebuf = 6 => r.urgency = Soon
        /\ r.safebuf = 7 => r.urgency = Distant

\* C8 amended: the buffers -5, 0, 1, 2, 6, 7 are classified critical,
\* critical, tomorrow, soon, routine, distant.
C8_SampleUrgencies ==
    \A s \in DOMAIN result :
        LET r == result[s] IN
        /\ r.safebuf = -5 => r.urgency = Critical
        /\ r.safebuf = 0 => r.urgency = Critical
        /\ r.safebuf = 1 => r.urgency = Tomorrow
        /\ r.safebuf = 2 => r.urgency = Soon
        /\ r.safebuf = 6 => r.urgency = Routine
        /\ r.safebuf = 7 => r.urgency = Distant

\* C8 witness: the pass returned a requirement of safety buffer 6, classified
\* routine
C8_Witness ==
    /\ pc = "done"
    /\ \E s \in DOMAIN result :
            result[s].safebuf = 6 /\ result[s].urgency = Routine

\* rate per day as the claim states it
NormalizedRate(rate, unit) ==
    CASE unit = "y" -> RMul(rate, Rat(1, 365))
      [] unit = "m" -> RMul(rate, Rat(1, 30))
      [] unit = "w" -> RMul(rate, Rat(1, 7))
      [] unit = "h" -> RMul(rate, RInt(24))
      [] OTHER -> rate

\* C9: hours_per_day = |rate_per_day| * hours_per_unit with rate_per_day the
\* rate over 365, 30, 7 for year, month, week, times 24 for hour, unchanged
\* for day and for any other unit; so 365 a year and 1 a day give the same
\* hours_per_day at the same hours_per_unit.
C9_HoursPerDayIsNormalizedRateTimesFactor ==
    /\ \A i \in Calls :
            (HasData(i) /\ Emitted(i)) =>
                Req(i).hours_per_day =
                    RMul(RAbs(NormalizedRate(fetched[i].tel.rate, fetched[i].tel.runits)),
                         fetched[i].goal.hours_per_unit)
    /\ \A i, j \in Calls :
            ( /\ HasData(i) /\ Emitted(i) /\ HasData(j) /\ Emitted(j)
              /\ fetched[i].tel.rate = RInt(365) /\ fetched[i].tel.runits = "y"
              /\ fetched[j].tel.rate = RInt(1) /\ fetched[j].tel.runits = "d"
              /\ fetched[i].goal.hours_per_unit = fetched[j].goal.hours_per_unit )
            => Req(i).hours_per_day = Req(j).hours_per_day

\* C10: every emitted requirement has hours_needed >= 0 and
\* hours_per_day >= 0, whatever add_goal, update_goal and the CLI add command
\* put in the goal store.
C10_HoursNonNegative ==
    \A s \in DOMAIN result :
        /\ RGeq(result[s].hours_needed, RZero)
        /\ RGeq(result[s].hours_per_day, RZero)

\* ------------------------------------------------------------------------
\* Properties of the goal store
\* ------------------------------------------------------------------------

\* the goals of the config file, none if there is no file
Persisted == LoadConfig(disk)

\* C11: every goal of the persisted store and of the store in memory has
\* hours_per_unit > 0, whatever adds, updates and removes came before
C11_StoredHoursPositive ==
    /\ \A i \in DOMAIN Persisted : RLess(RZero, Persisted[i].hours_per_unit)
    /\ \A i \in DOMAIN config : RLess(RZero, config[i].hours_per_unit)

\* C12: update_goal for a goal that is not scheduled ends with the error that
\* names the goal, and leaves the config in memory and the file as they were
C12_UnknownGoalUpdateFails ==
    [][\A slug \in Slugs, name \in NameInputs,
          h \in {None} \cup {Some(x) : x \in HoursInputs} :
            (UpdateGoal(slug, name, h) /\ ~HasGoal(config, slug))
                => /\ error' = NotScheduledError(slug)
                   /\ config' = config
                   /\ calendar_id' = calendar_id
                   /\ disk' = disk
                   /\ disk_calendar_id' = disk_calendar_id]_vars

\* an update of "reading" has just failed on a store that holds only "coding"
C12_Witness ==
    /\ error = NotScheduledError("reading")
    /\ HasGoal(config, "coding")
    /\ ~HasGoal(config, "reading")
    /\ disk = Some(config)

\* C19: a default calendar id that is in the config file stays in it, whatever
\* operation of the session writes the file next
C19_PersistedCalendarIdSurvives ==
    [][disk_calendar_id # None => disk_calendar_id' # None]_vars


\* ------------------------------------------------------------------------
\* Properties of the formatter
\* ------------------------------------------------------------------------

\* the text holds an opening fence labelled schedule, a newline, and later a
\* newline followed by a closing fence
HasScheduleBlock(text) ==
    \E i, j \in 1..Len(text) :
        /\ MatchAt(text, i, << Fence, "schedule", "\n" >>)
        /\ j >= i + 3
        /\ MatchAt(text, j, << "\n", Fence >>)

\* C13: a text without a fenced schedule block comes back from the formatter
\* as it went in, character for character
C13_NoBlockReturnsRawText ==
    (final_schedule # None /\ ~HasScheduleBlock(raw_schedule))
        => final_schedule[1] = raw_schedule

\* a text with entry lines but no labelled fence has been formatted
C13_Witness ==
    /\ final_schedule # None
    /\ ~HasScheduleBlock(raw_schedule)
    /\ \E i \in 1..Len(raw_schedule) : raw_schedule[i] \in Times
    /\ Contains(raw_schedule, Fence)


\* the text between the fences of the block
Block(text) == ScheduleMatch(text)[1]

\* the text that follows the closing fence of the block
AfterBlock(text) ==
    LET open == Min({i \in 1..Len(text) :
                        /\ MatchAt(text, i, << Fence, "schedule", "\n" >>)
                        /\ \E j \in (i + 3)..Len(text) :
                               MatchAt(text, j, << "\n", Fence >>)})
    IN  SubSeq(text, open + 3 + Len(Block(text)) + 2, Len(text))

IsNonBlank(line) == StripWs(line) # <<>>

NonBlankLines(text) == SelectSeq(Split(text, "\n"), IsNonBlank)

\* the line matches START - END: LABEL
IsEntry(line) == TimeMatch(line) # None

\* the bullets of the formatted text are the given lines, one bullet each and
\* in their order, an entry as it is and another line with the marker; no
\* bullet follows them
BulletsAre(formatted, lines) ==
    LET out == Split(formatted, "\n")
        n == Len(lines)
    IN  /\ Len(out) >= n + 3
        /\ out[1] = << "#", " ", "Today's", " ", "Schedule" >>
        /\ out[2] = <<>>
        /\ \A k \in 1..n :
               out[2 + k] = << "-", " " >> \o
                   (IF IsEntry(lines[k]) THEN lines[k]
                    ELSE lines[k] \o << " ", "[format?]" >>)
        /\ out[n + 3] = <<>>

\* C14 as stated: the bullets are the non-blank lines of the block exactly as
\* they stand between the fences
C14_OneBulletPerRawLine ==
    (final_schedule # None /\ HasScheduleBlock(raw_schedule))
        => BulletsAre(final_schedule[1], NonBlankLines(Block(raw_schedule)))

\* C14: the bullets are the non-blank lines of the block once the whitespace
\* at the two ends of the block is removed: one bullet per line, in order, an
\* entry unchanged, another line with the marker appended, none dropped
C14_OneBulletPerLine ==
    (final_schedule # None /\ HasScheduleBlock(raw_schedule))
        => BulletsAre(final_schedule[1], NonBlankLines(StripWs(Block(raw_schedule))))

\* a block of a line that is no entry followed by an entry has been formatted
C14_Witness ==
    /\ final_schedule # None
    /\ HasScheduleBlock(raw_schedule)
    /\ LET lines == NonBlankLines(StripWs(Block(raw_schedule)))
       IN  /\ Len(lines) = 2
           /\ ~IsEntry(lines[1])
           /\ IsEntry(lines[2])

\* the line is an entry with no blank before or after it
IsWellFormed(line) == IsEntry(line) /\ StripWs(line) = line

\* C15: for a block of well-formed lines, the stripping step of the refinement
\* gives back, from the formatted text, the lines of the block and nothing else
C15_StrippingRestoresBlockLines ==
    (/\ schedule_lines # None
     /\ HasScheduleBlock(raw_schedule)
     /\ \A i \in DOMAIN NonBlankLines(Block(raw_schedule)) :
            IsWellFormed(NonBlankLines(Block(raw_schedule))[i]))
        => schedule_lines[1] = NonBlankLines(Block(raw_schedule))

\* the notes the claim describes: the text after the first "Notes:" that
\* follows the block, stripped
NotesAfterBlock(text) ==
    LET notes_match == NotesMatch(AfterBlock(text))
    IN  IF notes_match = None THEN <<>> ELSE StripWs(notes_match[1])

\* C20: the notes of the formatted text are the text that follows the "Notes:"
\* heading after the block, and nothing of the block or of its closing fence
C20_NotesAreTheTextAfterTheBlock ==
    (final_schedule # None /\ HasScheduleBlock(raw_schedule))
        => final_schedule[1] =
              ScheduleHeading
              \o Bullets(FormatLines(Split(StripWs(Block(raw_schedule)), "\n")))
              \o (IF NotesAfterBlock(raw_schedule) # <<>>
                  THEN NotesHeading \o NotesAfterBlock(raw_schedule) \o << "\n" >>
                  ELSE <<>>)


\* ------------------------------------------------------------------------
\* Properties of push_schedule_to_calendar
\* ------------------------------------------------------------------------

\* the entries of the lines, in order
RECURSIVE EntriesOf(_)
EntriesOf(lines) ==
    IF lines = <<>> THEN <<>>
    ELSE (IF PushEntry(Head(lines)) = None THEN <<>>
          ELSE << PushEntry(Head(lines))[1] >>)
         \o EntriesOf(Tail(lines))

\* the entries of the schedule that is being pushed
ScheduleEntries == EntriesOf(Split(schedule_text, "\n"))

IsFailure(attempt) == attempt.outcome # "event"

IsCreated(attempt) == attempt.outcome = "event"

\* the error string names the entry of the attempt
NamesEntry(error_string, attempt) ==
    \/ error_string = << "Failed to create event: " >> \o attempt.summary
    \/ error_string = << "Error creating event " >> \o attempt.summary
                          \o << ": ", "exception" >>

\* C16: when push_schedule_to_calendar returns, create_event has been called
\* once per entry of the schedule, in order; every failed call has its error
\* string, which names the entry, and the calls after it were still made;
\* events_created plus the number of error strings is the number of entries
C16_OneAttemptPerEntry ==
    push_pc = "returned" =>
        /\ Len(attempts) = Len(ScheduleEntries)
        /\ LET entries == ScheduleEntries
           IN  \A k \in DOMAIN attempts :
                   /\ attempts[k].summary = entries[k].summary
                   /\ attempts[k].start_time = entries[k].start_time
                   /\ attempts[k].end_time = entries[k].end_time
        /\ events_created = Len(SelectSeq(attempts, IsCreated))
        /\ Len(errors) = Len(SelectSeq(attempts, IsFailure))
        /\ \A k \in DOMAIN errors :
               NamesEntry(errors[k], SelectSeq(attempts, IsFailure)[k])
        /\ events_created + Len(errors) = Len(ScheduleEntries)

\* a push has returned whose first create_event failed and whose second
\* created an event
C16_Witness ==
    /\ push_pc = "returned"
    /\ Len(attempts) >= 2
    /\ attempts[1].outcome = "none"
    /\ attempts[2].outcome = "event"
    /\ events_created = 1
    /\ Len(errors) = Len(attempts) - 1

\* ------------------------------------------------------------------------
\* Properties of the schedule-generation handlers
\* ------------------------------------------------------------------------

\* the most recent generation or refinement call returned a schedule, not the
\* report of a failure
ReturnedSchedule ==
    /\ generated # None
    /\ generated[1] \notin {GenerateSchedule(None), RefineSchedule("", None),
                            RefineSchedule("key", None)}

\* C17: once a handler has ended, get_last_schedule returns the text of the
\* most recent generation or refinement, whichever entry point made it, and
\* the empty string only if none was made
C17_LastScheduleIsMostRecentGeneration ==
    op = "none" =>
        /\ ReturnedSchedule => GetLastSchedule(last_schedule) = generated[1]
        /\ GetLastSchedule(last_schedule) = <<>> => ~ReturnedSchedule

\* the handler last ended found the API key setup to fail
KeySetupFailed == message = InvalidKeyMessage

\* the handler last ended found no requirements with no goal scheduled
NoGoalsScheduled == message = NoGoalsMessage /\ fetched = <<>>

\* the requests for a schedule text; the request by which the setup tries the
\* key it was given is left out
TextGenerationRequests == SelectSeq(chat_calls, LAMBDA c : c # "test")

\* C18: a handler that ended because no goals are scheduled, or because no API
\* key is stored and the setup yields none, has issued no goal fetch and no
\* text-generation request
C18_ShortCircuitBeforeRemoteCalls ==
    (op = "none" /\ (KeySetupFailed \/ NoGoalsScheduled)) =>
        /\ fetched = <<>>
        /\ TextGenerationRequests = <<>>

\* ------------------------------------------------------------------------
\* Properties of the events push_schedule_to_calendar asks for
\* ------------------------------------------------------------------------

\* the label of the attempt's entry, lowercased, holds break or lunch
IsBreakOrLunch(attempt) ==
    LET label == Lower(Characters(attempt.activity))
    IN  \/ In(<< "b", "r", "e", "a", "k" >>, label)
        \/ In(<< "l", "u", "n", "c", "h" >>, label)

\* the sum of the character codes of the goal name mod 11, plus 1
GoalTag(goal_name) == (SumOrd(Characters(goal_name)) % 11) + 1

\* the attempts made so far
Attempted == {attempts[k] : k \in DOMAIN attempts}

\* the tag of each attempt follows the rule: 7 for a break or lunch, else the
\* goal's tag in 1..11 if the entry names a goal
TagsFollowRule ==
    \A a \in Attempted :
        /\ IsBreakOrLunch(a) => a.color_id = Some(<< "7" >>)
        /\ ~IsBreakOrLunch(a) /\ a.goal_name # <<>> =>
               /\ a.color_id = Some(IntStr(GoalTag(a.goal_name)))
               /\ GoalTag(a.goal_name) \in 1..11

\* C21 as stated: within one run every entry's tag follows the rule, and any
\* two entries that name the same goal get the same tag
C21_SameGoalSameColour ==
    /\ TagsFollowRule
    /\ \A a, b \in Attempted :
           a.goal_name # <<>> /\ a.goal_name = b.goal_name =>
               a.color_id = b.color_id

\* C21, amended: within one run every entry's tag follows the rule, and any
\* two entries that name the same goal get the same tag if neither label holds
\* break or lunch
C21_SameGoalSameColourUnlessBreak ==
    /\ TagsFollowRule
    /\ \A a, b \in Attempted :
           /\ a.goal_name # <<>> /\ a.goal_name = b.goal_name
           /\ ~IsBreakOrLunch(a) /\ ~IsBreakOrLunch(b)
           => a.color_id = b.color_id

\* a push has returned that asked for two events of the goal Reading, the
\* second of them a lunch
C21_Witness ==
    /\ push_pc = "returned"
    /\ Len(attempts) = 2
    /\ attempts[1].goal_name = << "Reading" >>
    /\ attempts[2].goal_name = << "Reading" >>
    /\ ~IsBreakOrLunch(attempts[1])
    /\ IsBreakOrLunch(attempts[2])
    /\ attempts[1].color_id = Some(<< "6" >>)
    /\ attempts[2].color_id = Some(<< "7" >>)

\* the minute of the day a clock time names
ClockMinute(time) == ParseTimeString(time, 0)[1].minute

\* the events created so far
Created == {a \in Attempted : a.outcome = "event"}

\* C22: every created event ends no earlier than it starts: the start is on
\* the current date, and the end is on the next day if its clock time is
\* before the start's, on the current date if not
C22_EndNotBeforeStart ==
    \A a \in Created :
        /\ a.times # None
        /\ ~Before(a.times[1].end_dt, a.times[1].start_dt)
        /\ a.times[1].start_dt =
               [day |-> Today, minute |-> ClockMinute(a.start_time)]
        /\ a.times[1].end_dt =
               [day |-> IF ClockMinute(a.end_time) < ClockMinute(a.start_time)
                        THEN Today + 1 ELSE Today,
                minute |-> ClockMinute(a.end_time)]

\* an event from 11:00 PM to 12:00 AM was created, and one from 9:00 AM to
\* 10:00 AM
C22_Witness ==
    /\ push_pc = "returned"
    /\ \E a \in Created :
           /\ a.start_time = "11:00 PM" /\ a.end_time = "12:00 AM"
           /\ a.times[1].start_dt = [day |-> 0, minute |-> 1380]
           /\ a.times[1].end_dt = [day |-> 1, minute |-> 0]
    /\ \E a \in Created :
           /\ a.start_time = "9:00 AM" /\ a.end_time = "10:00 AM"
           /\ a.times[1].end_dt = [day |-> 0, minute |-> 600]

\* C28: no calendar event is created for a line that carries the formatter's
\* marker of a malformed line
C28_NoEventForMalformedLine ==
    \A a \in Created : ~In(<< "[format?]" >>, a.summary)

\* ------------------------------------------------------------------------
\* Properties of the summary and the deadline of a requirement
\* ------------------------------------------------------------------------

\* the remote summary is blank: absent, or present and empty
BlankSummary(tel) == tel.limsum = None \/ tel.limsum = Some("")

\* C23: a requirement emitted in the missing-data branch has the summary text
\* "Missing datapoints" whenever the remote summary is blank, absent or empty
C23_BlankSummaryDefaults ==
    \A i \in Calls :
        (fetched[i].ok /\ Emitted(i) /\ fetched[i].tel.curval = None
            /\ BlankSummary(fetched[i].tel)) =>
                Req(i).limsum = "Missing datapoints"

\* C25: the deadline of an emitted requirement is the calculation time plus
\* 365 days when the telemetry's epoch is zero or absent, and the instant the
\* epoch gives otherwise, with and without a current value
C25_DeadlineFromEpochOrAYearOn ==
    \A i \in Calls :
        (fetched[i].ok /\ Emitted(i)) =>
            LET losedate == fetched[i].tel.losedate
            IN  Req(i).deadline =
                    IF losedate = None \/ losedate = Some(0)
                    THEN Now + 365 * 86400
                    ELSE losedate[1]

\* the pass returned requirements for a goal without current value and one
\* with, and among them one whose epoch is zero, one whose epoch is absent and
\* one whose epoch is set
C25_Witness ==
    /\ pc = "done"
    /\ \E i, j \in Calls :
           /\ Emitted(i) /\ Emitted(j)
           /\ fetched[i].tel.curval = None /\ fetched[j].tel.curval # None
           /\ fetched[i].tel.losedate = Some(0)
           /\ Req(i).deadline = 32536000
           /\ fetched[j].tel.losedate = Some(2000000)
           /\ Req(j).deadline = 2000000

\* ------------------------------------------------------------------------
\* Properties of the order of the pass
\* ------------------------------------------------------------------------

\* C24: within a pass get_goal is called once per configured goal, in store
\* order, the next call only after the one before has returned or failed; the
\* result holds for each goal fetched so far what its own config and telemetry
\* give, whatever happened to the fetches of the other goals
C24_OneFetchPerGoalInOrder ==
    pc \in {"calc", "done"} =>
        /\ Len(fetched) + Len(todo) = Len(config)
        /\ pc = "done" => Len(fetched) = Len(config)
        /\ \A i \in Calls :
               /\ fetched[i].goal = GetScheduledGoals(config)[i]
               /\ fetched[i].slug = config[i].slug
               /\ Emitted(i) <=>
                      /\ fetched[i].ok
                      /\ ProcessGoal(fetched[i].goal, fetched[i].tel) # None
               /\ Emitted(i) =>
                      Req(i) = ProcessGoal(fetched[i].goal, fetched[i].tel)[1]
        /\ DOMAIN result \subseteq {fetched[i].slug : i \in Calls}

\* a pass over two goals has returned in which one fetch failed, before or
\* after the fetch of the goal whose requirement the result holds
C24_Witness ==
    /\ pc = "done"
    /\ Len(fetched) = 2
    /\ \E i, j \in Calls :
           /\ i # j
           /\ ~fetched[i].ok
           /\ fetched[j].ok /\ Emitted(j)
           /\ Req(j).hours_needed # RZero

\* ------------------------------------------------------------------------
\* Properties of the config file
\* ------------------------------------------------------------------------

\* C26: whatever add_goal, update_goal and remove_goal calls were made, failed
\* ones among them, the goals of the config file are the goals the scheduler
\* holds, and a scheduler constructed on the file gets the same scheduled goals
C26_FileGoalsAreMemoryGoals ==
    /\ LoadConfig(disk) = config
    /\ GetScheduledGoals(LoadConfig(disk)) = GetScheduledGoals(config)

\* update_goal of a goal that is not scheduled has just failed on a scheduler
\* that holds another goal, which the file holds too
C26_Witness ==
    /\ error = NotScheduledError("coding")
    /\ HasGoal(config, "reading")
    /\ ~HasGoal(config, "coding")
    /\ disk = Some(config)

\* ------------------------------------------------------------------------
\* Properties of the API key and of what is saved as the last schedule
\* ------------------------------------------------------------------------

\* C27: when a handler has ended on a key that failed its verification, no API
\* key is stored
C27_RejectedKeyIsNotStored ==
    (op = "none" /\ KeySetupFailed) => llm_api_key = ""

\* what generate_schedule and refine_schedule return instead of a schedule
FailureMessages ==
    {GenerateSchedule(None), RefineSchedule("", None), RefineSchedule("key", None)}

\* C30: the last-schedule file never holds the message of a failed generation
\* or refinement
C30_LastScheduleIsNeverAFailureMessage ==
    GetLastSchedule(last_schedule) \notin FailureMessages

\* ------------------------------------------------------------------------
\* Properties of the default start time
\* ------------------------------------------------------------------------

\* the minute of the day of an [hour, minute]
MinuteOfDay(t) == t.hour * 60 + t.minute

\* C29: the default start time is computed for every hour 0..23 and minute
\* 0..59 of the clock, and is the first quarter hour of the current day at or
\* after the clock's hour and minute
C29_DefaultStartIsNextQuarterHour ==
    default_start_time # None =>
        LET computed == default_start_time[1]
        IN  /\ computed.raised = NoError
            /\ computed.rounded_time # None
            /\ MinuteOfDay(computed.rounded_time[1]) % 15 = 0
            /\ MinuteOfDay(computed.rounded_time[1]) - MinuteOfDay(clock[1]) \in 0 .. 14

====
